---- MODULE Spec2Model ----
(***************************************************************************)
(* BiasXplorer-Mini: the imbalance / skewness detection-and-correction     *)
(* engine (backend/services, backend/utils) as a state machine.            *)
(*                                                                         *)
(* A DataFrame is an object on a heap (heap[ref]); services receive a      *)
(* reference, so in-place column assignment and df.copy() are told apart.  *)
(* Floats are kept exact: a proportion rounded to 6 decimals is an integer *)
(* number of millionths, a ratio is a pair of integers, a skewness is a    *)
(* sign with the reduced fraction of its square.                           *)
(***************************************************************************)
EXTENDS Integers, Sequences, FiniteSets, TLC

VARIABLES
    op,        \* the service operation this run executes
    heap,      \* DataFrame objects by reference
    args,      \* the arguments of the call (df is a reference into heap)
    pc,        \* position inside the operation
    idx,       \* position of the for-loop over the requested columns
    result,    \* the dictionary the operation builds / returns
    outcome,   \* "running", "returned" or "raised"
    input,     \* the caller's table as it was when the call was made
    df_corrected  \* the reference held by the local df_corrected (0: unset)

vars == <<op, heap, args, pc, idx, result, outcome, input, df_corrected>>

(***************************************************************************)
(* Bounds of the model                                                     *)
(***************************************************************************)
MaxRows == 3        \* rows of the tables given to detect_imbalance

(***************************************************************************)
(* Cells, columns, tables                                                  *)
(***************************************************************************)
\* A cell of a DataFrame: a missing value (NaN/None), a number, or a string.
\* s is the text str() gives for the Python object, n the numeric value,
\* p whether pd.to_numeric can parse it.
NaN == [kind |-> "nan", s |-> "nan", n |-> 0, p |-> FALSE]
Num(k) == [kind |-> "num", s |-> ToString(k), n |-> k, p |-> TRUE]
Word(t) == [kind |-> "str", s |-> t, n |-> 0, p |-> FALSE]
NumText(k) == [kind |-> "str", s |-> ToString(k), n |-> k, p |-> TRUE]

IsNA(c) == c.kind = "nan"

\* The reference of the DataFrame the caller passes in, and of the copy a
\* service allocates.
CallerRef == 1
CopyRef == 2

Range(f) == {f[i] : i \in DOMAIN f}

RECURSIVE SumOver(_, _)
SumOver(f, S) ==
    IF S = {} THEN 0
    ELSE LET e == CHOOSE e \in S : TRUE IN f[e] + SumOver(f, S \ {e})

SetMax(S) == CHOOSE m \in S : \A e \in S : e <= m
SetMin(S) == CHOOSE m \in S : \A e \in S : m <= e

\* Python dict: d[k] = v (insert or overwrite).
DictSet(d, k, v) == (k :> v) @@ d
EmptyDict == <<>>

\* pandas dtype of a column as read_csv / the DataFrame constructor infers it.
Dtype(col) ==
    IF \E i \in DOMAIN col : col[i].kind = "str" THEN "object"
    ELSE IF \E i \in DOMAIN col : col[i].kind = "nan" THEN "float64"
    ELSE "int64"

\* Faulty variant of dropna that keeps the missing values.
dropna_keeps_missing(col) == DOMAIN col

\* series.dropna(): the positions that hold a value.
dropna(col) == {i \in DOMAIN col : ~IsNA(col[i])}

\* str(k) of a value taken out of a column: a number of a float64 column is
\* a float ("1.0"), of an int64 or object column a Python int ("1").
Str(col, c) ==
    IF c.kind = "num" /\ Dtype(col) = "float64" THEN c.s \o ".0" ELSE c.s

(***************************************************************************)
(* 4.1 Distribution Analyzer: BiasDetectionService.detect_imbalance        *)
(***************************************************************************)
Million == 1000000

\* round(count / total, 6), in millionths.  np.round goes to the nearest
\* millionth; a tie needs 2*10^6*count/total odd, impossible for total < 128.
Round6(count, total) == (2 * Million * count + total) \div (2 * total)

\* series.value_counts(): the distinct values with their counts.
value_counts(col) ==
    LET vals == {col[i] : i \in dropna(col)}
    IN  [v \in vals |-> Cardinality({i \in dropna(col) : col[i] = v})]

\* {str(k): float(round(v, 6)) for k, v in dist.items()}.  value_counts
\* lists the values by descending count, and a later item overwrites an
\* earlier one with the same key, so a key keeps the smallest proportion
\* among the values that share it.
dist_str(col) ==
    LET vc == value_counts(col)
        total == Cardinality(dropna(col))
        keys == {Str(col, v) : v \in DOMAIN vc}
    IN  [k \in keys |->
            SetMin({Round6(vc[v], total) : v \in {w \in DOMAIN vc : Str(col, w) = k}})]

\* The imbalance ratio minority / majority as the pair <<minority, majority>>.
imbalance_ratio(d) ==
    IF Cardinality(DOMAIN d) = 1 THEN <<0, 1>>
    ELSE LET majority == SetMax(Range(d))
             minority == SetMin(Range(d))
         IN  IF majority > 0 THEN <<minority, majority>> ELSE <<0, 1>>

\* ratio >= num/den on the exact quotient; the float quotient of the code
\* agrees with it for the tables of this model (fewer than 20 rows).
RatioGE(ratio, num, den) == ratio[1] * den >= num * ratio[2]

severity_of(ratio) ==
    IF RatioGE(ratio, 5, 10) THEN "Low"
    ELSE IF RatioGE(ratio, 2, 10) THEN "Moderate"
    ELSE "Severe"

\* Values of a column entry: a float (millionths) or a string.
FloatVal(x) == [t |-> "float", v |-> x]
StrVal(x) == [t |-> "str", v |-> x]

\* col_entry.update(dist_str); col_entry["severity"] = severity
col_entry_of(col) ==
    LET d == dist_str(col)
        merged == [k \in DOMAIN d |-> FloatVal(d[k])]
    IN  DictSet(merged, "severity", StrVal(severity_of(imbalance_ratio(d))))

NAEntry(note) == DictSet(DictSet(EmptyDict, "severity", StrVal("N/A")), "note", StrVal(note))

DetectCol == args.categorical_columns[idx]
DetectDf == heap[args.df]

DetectLooping ==
    /\ op = "detect_imbalance"
    /\ outcome = "running"
    /\ idx <= Len(args.categorical_columns)

DetectColumnNotFound ==
    /\ DetectLooping
    /\ DetectCol \notin DOMAIN DetectDf
    /\ result' = DictSet(result, DetectCol, NAEntry("Column not found"))
    /\ idx' = idx + 1
    /\ UNCHANGED <<op, heap, args, pc, outcome, input, df_corrected>>

DetectNoData ==
    /\ DetectLooping
    /\ DetectCol \in DOMAIN DetectDf
    /\ dropna(DetectDf[DetectCol]) = {}
    /\ result' = DictSet(result, DetectCol, NAEntry("No data"))
    /\ idx' = idx + 1
    /\ UNCHANGED <<op, heap, args, pc, outcome, input, df_corrected>>

DetectClassify ==
    /\ DetectLooping
    /\ DetectCol \in DOMAIN DetectDf
    /\ dropna(DetectDf[DetectCol]) # {}
    /\ result' = DictSet(result, DetectCol, col_entry_of(DetectDf[DetectCol]))
    /\ idx' = idx + 1
    /\ UNCHANGED <<op, heap, args, pc, outcome, input, df_corrected>>

DetectReturn ==
    /\ op = "detect_imbalance"
    /\ outcome = "running"
    /\ idx > Len(args.categorical_columns)
    /\ outcome' = "returned"
    /\ pc' = "done"
    /\ UNCHANGED <<op, heap, args, idx, result, input, df_corrected>>

\* Inputs of detect_imbalance.
DetectCells == {NaN, Word("a"), Word("severity"), Num(1), NumText(1)}
DetectOtherColumns(n) == {[i \in 1..n |-> NaN], [i \in 1..n |-> Word("a")]}
DetectTables ==
    UNION {{[A |-> a, B |-> b] : a \in [1..n -> DetectCells], b \in DetectOtherColumns(n)}
           : n \in 0..MaxRows}
DetectRequests ==
    {<<"A">>, <<"A", "B">>, <<"B", "A">>, <<"Z", "A">>, <<"A", "Z", "B">>, <<"A", "A">>}

InitDetect ==
    /\ op = "detect_imbalance"
    /\ \E t \in DetectTables : heap = (CallerRef :> t)
    /\ input = heap[CallerRef]
    /\ df_corrected = 0
    /\ \E r \in DetectRequests : args = [df |-> CallerRef, categorical_columns |-> r]
    /\ pc = "loop"
    /\ idx = 1
    /\ result = EmptyDict
    /\ outcome = "running"

NextDetect ==
    \/ DetectColumnNotFound
    \/ DetectNoData
    \/ DetectClassify
    \/ DetectReturn

SpecDetect == InitDetect /\ [][NextDetect]_vars

(***************************************************************************)
(* Exact arithmetic for skewness values                                    *)
(***************************************************************************)
\* Natural numbers beyond the machine integers, as little-endian sequences
\* of limbs; <<>> is zero.
Base == 10000

RECURSIVE BigOf(_)
BigOf(x) == IF x = 0 THEN <<>> ELSE <<x % Base>> \o BigOf(x \div Base)

RECURSIVE BigAdd(_, _, _)
BigAdd(a, b, carry) ==
    IF a = <<>> /\ b = <<>> THEN BigOf(carry)
    ELSE LET x == IF a = <<>> THEN 0 ELSE Head(a)
             y == IF b = <<>> THEN 0 ELSE Head(b)
             t == x + y + carry
         IN  <<t % Base>> \o BigAdd(IF a = <<>> THEN a ELSE Tail(a),
                                    IF b = <<>> THEN b ELSE Tail(b), t \div Base)

RECURSIVE BigMulLimb(_, _, _)
BigMulLimb(a, k, carry) ==
    IF a = <<>> THEN BigOf(carry)
    ELSE LET t == Head(a) * k + carry
         IN  <<t % Base>> \o BigMulLimb(Tail(a), k, t \div Base)

RECURSIVE BigStrip(_)
BigStrip(a) ==
    IF a # <<>> /\ a[Len(a)] = 0 THEN BigStrip(SubSeq(a, 1, Len(a) - 1)) ELSE a

RECURSIVE BigMul(_, _)
BigMul(a, b) ==
    IF a = <<>> \/ b = <<>> THEN <<>>
    ELSE BigStrip(BigAdd(BigMulLimb(a, Head(b), 0), <<0>> \o BigMul(a, Tail(b)), 0))

RECURSIVE BigLE(_, _)
BigLE(a, b) ==
    IF Len(a) # Len(b) THEN Len(a) < Len(b)
    ELSE IF a = <<>> THEN TRUE
    ELSE IF a[Len(a)] # b[Len(b)] THEN a[Len(a)] < b[Len(b)]
    ELSE BigLE(SubSeq(a, 1, Len(a) - 1), SubSeq(b, 1, Len(b) - 1))

Abs(x) == IF x < 0 THEN -x ELSE x
Sign(x) == IF x < 0 THEN -1 ELSE IF x > 0 THEN 1 ELSE 0

RECURSIVE Gcd(_, _)
Gcd(a, b) == IF b = 0 THEN a ELSE Gcd(b, a % b)

BigSq(x) == BigMul(BigOf(x), BigOf(x))

\* A skewness value (a Python float or None):
\*   SkewNone    None
\*   SkewNaN     float('nan')
\*   SkewVal     the real number sign * sqrt(a / b), a and b naturals
\*   SkewSym     a real number the model does not compute (the skewness of
\*               values produced by log1p, by a fitted transform or by an
\*               irrational root): of names the values it was computed
\*               from, sign * sqrt(a / b) is a number of the band it lies in
SkewNone == [k |-> "none"]
SkewNaN == [k |-> "nan"]
SkewVal(sign, a, b) == [k |-> "val", sign |-> sign, a |-> a, b |-> b]
SkewSym(of, rep) == [k |-> "sym", of |-> of, sign |-> rep.sign, a |-> rep.a, b |-> rep.b]

\* The float p/q.
Rational(p, q) == SkewVal(Sign(p), BigSq(Abs(p)), BigSq(q))

\* s <= p/q and s >= p/q for a float s that is a number (q > 0).
ValLE(s, p, q) ==
    LET lhs == BigMul(s.a, BigSq(q))
        rhs == BigMul(BigSq(Abs(p)), s.b)
    IN  IF s.sign <= 0 /\ p >= 0 THEN TRUE
        ELSE IF s.sign >= 0 /\ p <= 0 THEN s.sign = 0 /\ p = 0
        ELSE IF s.sign > 0 THEN BigLE(lhs, rhs)
        ELSE BigLE(rhs, lhs)

ValGE(s, p, q) ==
    LET lhs == BigMul(s.a, BigSq(q))
        rhs == BigMul(BigSq(Abs(p)), s.b)
    IN  IF s.sign >= 0 /\ p <= 0 THEN TRUE
        ELSE IF s.sign <= 0 /\ p >= 0 THEN s.sign = 0 /\ p = 0
        ELSE IF s.sign > 0 THEN BigLE(rhs, lhs)
        ELSE BigLE(lhs, rhs)

\* Python's comparisons of a float with the literal p/q: every comparison
\* with NaN is False.
IsNumber(s) == s.k \in {"val", "sym"}
LE(s, p, q) == IsNumber(s) /\ ValLE(s, p, q)
GE(s, p, q) == IsNumber(s) /\ ValGE(s, p, q)
LT(s, p, q) == IsNumber(s) /\ ~ValGE(s, p, q)
GT(s, p, q) == IsNumber(s) /\ ~ValLE(s, p, q)
\* abs(s) <= p/q
AbsLE(s, p, q) == LE(s, p, q) /\ GE(s, -p, q)

(***************************************************************************)
(* 4.2 Skewness Analyzer: utils/data_stats.compute_skewness                *)
(***************************************************************************)
\* Cells that transformations produce:
\*   Sym(t, 1)   a number >= 0 that is not kept exact, written t
\*   Sym(t, 0)   a number of unknown sign, written t
\*   Unk(t)      a number or NaN (a root or logarithm of a number of
\*               unknown sign)
\*   Inf(sg)     +inf or -inf
Sym(t, nonneg) == [kind |-> "sym", s |-> t, n |-> nonneg, p |-> TRUE]
Unk(t) == [kind |-> "unk", s |-> t, n |-> 0, p |-> TRUE]
Inf(sg) == [kind |-> "inf", s |-> IF sg > 0 THEN "inf" ELSE "-inf", n |-> sg, p |-> TRUE]

\* Largest magnitude the model keeps exact.
ExactLimit == 500

\* pd.to_numeric(series, errors='coerce').dropna(): the positions that
\* surely hold a number, and those that may.
Numeric(c) == c.kind \in {"num", "sym", "inf"} \/ (c.kind = "str" /\ c.p)
numeric_positions(col) == {i \in DOMAIN col : Numeric(col[i])}
unknown_positions(col) == {i \in DOMAIN col : col[i].kind = "unk"}

\* Two cells hold the same number.
SameValue(c, e) ==
    IF c.kind \in {"num", "str"} /\ e.kind \in {"num", "str"} THEN c.n = e.n ELSE c = e

\* One number of every band of the method table, for SkewSym.
BandNumbers ==
    {Rational(0, 1), Rational(3, 4), Rational(3, 2), Rational(5, 2), Rational(4, 1),
     Rational(-3, 4), Rational(-3, 2), Rational(-5, 2), Rational(-4, 1)}

\* scipy.stats.skew (bias=True): m3 / m2^1.5 of the values at positions
\* clean, at least two.  NaN for equal values (m2 = 0) and when a value is
\* infinite.  With d[i] = n*x[i] - sum(x) divided by their gcd, the square
\* of the skewness is n * (sum d^3)^2 / (sum d^2)^3.
scipy_skew(col, clean) ==
    LET n == Cardinality(clean)
        exact == \A i \in clean : col[i].kind \in {"num", "str"}
        total == SumOver([i \in clean |-> col[i].n], clean)
        dev == [i \in clean |-> n * col[i].n - total]
        g == LET first == CHOOSE i \in clean : dev[i] # 0
                 RECURSIVE GcdOver(_, _)
                 GcdOver(acc, S) ==
                     IF S = {} THEN acc
                     ELSE LET e == CHOOSE e \in S : TRUE
                          IN  GcdOver(Gcd(acc, Abs(dev[e])), S \ {e})
             IN  GcdOver(Abs(dev[first]), clean)
        d == [i \in clean |-> dev[i] \div g]
        M2 == SumOver([i \in clean |-> d[i] * d[i]], clean)
        M3 == SumOver([i \in clean |-> d[i] * d[i] * d[i]], clean)
        names == {col[i].s : i \in clean}
    IN  IF \E i \in clean : col[i].kind = "inf" THEN {SkewNaN}
        ELSE IF \A i, j \in clean : SameValue(col[i], col[j]) THEN {SkewNaN}
        ELSE IF ~exact \/ \E i \in clean : Abs(col[i].n) > ExactLimit
            THEN {SkewSym(names, r) : r \in BandNumbers}
        ELSE IF \E i \in clean : Abs(d[i]) > ExactLimit
            THEN {SkewSym(names, r) : r \in BandNumbers}
        ELSE IF M3 = 0 THEN {Rational(0, 1)}
        ELSE {SkewVal(Sign(M3), BigMul(BigOf(n), BigSq(Abs(M3))),
                      BigMul(BigOf(M2), BigSq(M2)))}

\* compute_skewness(series): the possible results, [exc, v]: None when no
\* numeric value remains, ValueError when exactly one remains, otherwise
\* the skewness.
Returned(v) == [exc |-> FALSE, v |-> v]
Raised == [exc |-> TRUE, v |-> SkewNone]

\* Faulty variant of compute_skewness without the minimum-sample check.
compute_skewness_no_minimum(col) ==
    UNION {LET clean == numeric_positions(col) \cup U
           IN  IF Cardinality(clean) = 0 THEN {Returned(SkewNone)}
               ELSE {Returned(v) : v \in scipy_skew(col, clean)}
           : U \in SUBSET unknown_positions(col)}

compute_skewness(col) ==
    UNION {LET clean == numeric_positions(col) \cup U
           IN  IF Cardinality(clean) = 0 THEN {Returned(SkewNone)}
               ELSE IF Cardinality(clean) < 2 THEN {Raised}
               ELSE {Returned(v) : v \in scipy_skew(col, clean)}
           : U \in SUBSET unknown_positions(col)}

(***************************************************************************)
(* SkewnessDetectionService.detect_skewness                                *)
(***************************************************************************)
MaxSkewRows == 3    \* rows of the fully enumerated numeric columns

SkewCells == {NaN, Word("x"), Num(-1), Num(0), Num(1), Num(4)}

DetectSkewnessColumnNotFound ==
    /\ op = "detect_skewness"
    /\ outcome = "running"
    /\ args.column \notin DOMAIN heap[args.df]
    /\ outcome' = "raised"
    /\ result' = [error |-> "ValueError"]
    /\ pc' = "done"
    /\ UNCHANGED <<op, heap, args, idx, input, df_corrected>>

DetectSkewnessCompute ==
    /\ op = "detect_skewness"
    /\ outcome = "running"
    /\ args.column \in DOMAIN heap[args.df]
    /\ LET series == heap[args.df][args.column]
           n_nonnull == Cardinality(dropna(series))
       IN  \E r \in compute_skewness(series) :
               IF r.exc
               THEN /\ outcome' = "raised"
                    /\ result' = [error |-> "ValueError"]
               ELSE /\ outcome' = "returned"
                    /\ result' = [column |-> args.column, skewness |-> r.v,
                                  n_nonnull |-> n_nonnull, message |-> "ok"]
    /\ pc' = "done"
    /\ UNCHANGED <<op, heap, args, idx, input, df_corrected>>

DetectSkewnessSeries ==
    UNION {[1..n -> SkewCells \cup {NumText(4)}] : n \in 0..MaxSkewRows}

InitDetectSkewness ==
    /\ op = "detect_skewness"
    /\ \E a \in DetectSkewnessSeries : heap = (CallerRef :> [A |-> a])
    /\ input = heap[CallerRef]
    /\ df_corrected = 0
    /\ \E c \in {"A", "Z"} : args = [df |-> CallerRef, column |-> c]
    /\ pc = "call"
    /\ idx = 0
    /\ result = EmptyDict
    /\ outcome = "running"

NextDetectSkewness == DetectSkewnessColumnNotFound \/ DetectSkewnessCompute

SpecDetectSkewness == InitDetectSkewness /\ [][NextDetectSkewness]_vars

(***************************************************************************)
(* 4.4 Skew Correction Engine: utils/transformers/continuous.py            *)
(***************************************************************************)
Paren(f, c) == f \o "(" \o c.s \o ")"

\* np.sqrt of one value: NaN for a negative number.
SqrtCell(c) ==
    CASE c.kind = "nan" -> NaN
      [] c.kind = "num" ->
            IF c.n < 0 THEN NaN
            ELSE IF \E r \in 0..(IF c.n < ExactLimit THEN c.n ELSE ExactLimit) : r * r = c.n
                 THEN Num(CHOOSE r \in 0..c.n : r * r = c.n)
                 ELSE Sym(Paren("sqrt", c), 1)
      [] c.kind = "sym" -> IF c.n = 1 THEN Sym(Paren("sqrt", c), 1) ELSE Unk(Paren("sqrt", c))
      [] c.kind = "unk" -> Unk(Paren("sqrt", c))
      [] c.kind = "inf" -> IF c.n > 0 THEN c ELSE NaN

\* np.log1p of one value: NaN below -1, -inf at -1.
Log1pCell(c) ==
    CASE c.kind = "nan" -> NaN
      [] c.kind = "num" ->
            IF c.n < -1 THEN NaN
            ELSE IF c.n = -1 THEN Inf(-1)
            ELSE IF c.n = 0 THEN Num(0)
            ELSE Sym(Paren("log1p", c), 1)
      [] c.kind = "sym" -> IF c.n = 1 THEN Sym(Paren("log1p", c), 1) ELSE Unk(Paren("log1p", c))
      [] c.kind = "unk" -> Unk(Paren("log1p", c))
      [] c.kind = "inf" -> IF c.n > 0 THEN c ELSE NaN

\* np.power(x, 2) and np.power(x, 3) of one value.
SquareCell(c) ==
    CASE c.kind = "nan" -> NaN
      [] c.kind = "num" ->
            IF Abs(c.n) <= ExactLimit THEN Num(c.n * c.n) ELSE Sym(Paren("square", c), 1)
      [] c.kind = "sym" -> Sym(Paren("square", c), 1)
      [] c.kind = "unk" -> Unk(Paren("square", c))
      [] c.kind = "inf" -> Inf(1)

CubeCell(c) ==
    CASE c.kind = "nan" -> NaN
      [] c.kind = "num" ->
            IF Abs(c.n) <= ExactLimit THEN Num(c.n * c.n * c.n)
            ELSE Sym(Paren("cube", c), IF c.n > 0 THEN 1 ELSE 0)
      [] c.kind = "sym" -> Sym(Paren("cube", c), c.n)
      [] c.kind = "unk" -> Unk(Paren("cube", c))
      [] c.kind = "inf" -> c

\* A value of the column a fitted transformer returns: missing values stay
\* missing, the others become numbers of either sign.
FittedCell(f, c) ==
    CASE c.kind = "nan" -> NaN
      [] c.kind = "unk" -> Unk(Paren(f, c))
      [] OTHER -> Sym(Paren(f, c), 0)

\* The elementwise functions raise TypeError on a column of dtype object
\* (a column that holds text), the fitted transformers raise ValueError on
\* text and on an infinite value.  A transform result is [exc, series].
Done(series) == [exc |-> FALSE, series |-> series]
Fails(series) == [exc |-> TRUE, series |-> series]

Elementwise(F(_), series) ==
    IF Dtype(series) = "object" THEN Fails(series)
    ELSE Done([i \in DOMAIN series |-> F(series[i])])

apply_square_root(series) == Elementwise(SqrtCell, series)
apply_log(series) == Elementwise(Log1pCell, series)
apply_square_power(series) == Elementwise(SquareCell, series)
apply_cube_power(series) == Elementwise(CubeCell, series)

Fitted(f, series) ==
    IF Dtype(series) = "object" \/ \E i \in DOMAIN series : series[i].kind = "inf"
    THEN Fails(series)
    ELSE Done([i \in DOMAIN series |-> FittedCell(f, series[i])])

apply_yeo_johnson(series) == Fitted("yeo_johnson", series)
apply_quantile_transformer(series) == Fitted("quantile", series)

\* Faulty variant of get_transformation_method whose bands are closed at
\* the lower bound and open at the upper one.
get_transformation_method_open_above(skew_value) ==
    IF AbsLE(skew_value, 1, 2) THEN "None (already symmetric)"
    ELSE IF GE(skew_value, 1, 2) /\ LT(skew_value, 1, 1) THEN "Square Root"
    ELSE IF GE(skew_value, 1, 1) /\ LT(skew_value, 2, 1) THEN "Log Transformation"
    ELSE IF LE(skew_value, -1, 2) /\ GT(skew_value, -1, 1) THEN "Squared Power"
    ELSE IF LE(skew_value, -1, 1) /\ GT(skew_value, -2, 1) THEN "Cubed Power"
    ELSE IF \/ (GE(skew_value, 2, 1) /\ LT(skew_value, 3, 1))
            \/ (LE(skew_value, -2, 1) /\ GT(skew_value, -3, 1)) THEN "Yeo-Johnson"
    ELSE "Quantile Transformer"

get_transformation_method(skew_value) ==
    IF AbsLE(skew_value, 1, 2) THEN "None (already symmetric)"
    ELSE IF GT(skew_value, 1, 2) /\ LE(skew_value, 1, 1) THEN "Square Root"
    ELSE IF GT(skew_value, 1, 1) /\ LE(skew_value, 2, 1) THEN "Log Transformation"
    ELSE IF LT(skew_value, -1, 2) /\ GE(skew_value, -1, 1) THEN "Squared Power"
    ELSE IF LT(skew_value, -1, 1) /\ GE(skew_value, -2, 1) THEN "Cubed Power"
    ELSE IF \/ (GT(skew_value, 2, 1) /\ LE(skew_value, 3, 1))
            \/ (LT(skew_value, -2, 1) /\ GE(skew_value, -3, 1)) THEN "Yeo-Johnson"
    ELSE "Quantile Transformer"

\* apply_transformation(df, col, skew_value): df[col] is assigned in place;
\* the result is [exc, series], series being df[col] afterwards.
apply_transformation(series, skew_value) ==
    IF AbsLE(skew_value, 1, 2) THEN Done(series)
    ELSE IF GT(skew_value, 1, 2) /\ LE(skew_value, 1, 1) THEN apply_square_root(series)
    ELSE IF GT(skew_value, 1, 1) /\ LE(skew_value, 2, 1) THEN apply_log(series)
    ELSE IF LT(skew_value, -1, 2) /\ GE(skew_value, -1, 1) THEN apply_square_power(series)
    ELSE IF LT(skew_value, -1, 1) /\ GE(skew_value, -2, 1) THEN apply_cube_power(series)
    ELSE IF \/ (GT(skew_value, 2, 1) /\ LE(skew_value, 3, 1))
            \/ (LT(skew_value, -2, 1) /\ GE(skew_value, -3, 1)) THEN apply_yeo_johnson(series)
    ELSE apply_quantile_transformer(series)

\* The two functions called one after the other on a column and a float.
TransformGetMethod ==
    /\ op = "apply_transformation"
    /\ pc = "get_transformation_method"
    /\ result' = [method |-> get_transformation_method(args.skew_value)]
    /\ pc' = "apply_transformation"
    /\ UNCHANGED <<op, heap, args, idx, outcome, input, df_corrected>>

TransformApply ==
    /\ op = "apply_transformation"
    /\ pc = "apply_transformation"
    /\ LET t == apply_transformation(heap[args.df][args.col], args.skew_value)
       IN  /\ heap' = [heap EXCEPT ![args.df][args.col] = t.series]
           /\ outcome' = IF t.exc THEN "raised" ELSE "returned"
    /\ pc' = "done"
    /\ UNCHANGED <<op, args, idx, result, input, df_corrected>>

\* The floats p / 100000 around every bound of the method table.
SkewInputs ==
    {<<b + d, 100000>> :
        b \in {-300000, -200000, -100000, -50000, 0, 50000, 100000, 200000, 300000},
        d \in {-40000, -1, 0, 1, 40000}}

TransformSeries ==
    {<<Num(0), Num(1), Num(4)>>, <<Num(-1), NaN, Num(4)>>, <<Num(4), Num(0), Word("x")>>}

InitTransform ==
    /\ op = "apply_transformation"
    /\ \E a \in TransformSeries : heap = (CallerRef :> [A |-> a, B |-> a])
    /\ input = heap[CallerRef]
    /\ df_corrected = 0
    /\ \E r \in SkewInputs :
        args = [df |-> CallerRef, col |-> "A", skew_value |-> Rational(r[1], r[2]),
                p |-> r[1], q |-> r[2]]
    /\ pc = "get_transformation_method"
    /\ idx = 0
    /\ result = EmptyDict
    /\ outcome = "running"

NextTransform == TransformGetMethod \/ TransformApply

SpecTransform == InitTransform /\ [][NextTransform]_vars

(***************************************************************************)
(* SkewnessCorrectionService: correct_column, correct_multiple_columns     *)
(***************************************************************************)
Null == "null"

ErrorEntry(message) ==
    [error |-> message, original_skewness |-> SkewNone, new_skewness |-> SkewNone,
     method |-> Null]

\* The try block of correct_column (lines 31-57): the possible outcomes,
\* each the table object afterwards (its column is assigned in place) and
\* either the dictionary returned or the exception raised.
try_correct_column(df, column) ==
    UNION {
        IF first.exc THEN {[exc |-> TRUE, error |-> "ValueError", df |-> df, entry |-> <<>>]}
        ELSE IF first.v = SkewNone
            THEN {[exc |-> FALSE, error |-> "", df |-> df,
                   entry |-> ErrorEntry("Unable to compute skewness")]}
        ELSE LET original_skewness == first.v
                 method == get_transformation_method(original_skewness)
                 t == apply_transformation(df[column], original_skewness)
                 transformed == [df EXCEPT ![column] = t.series]
             IN  IF AbsLE(original_skewness, 1, 2)
                 THEN {[exc |-> FALSE, error |-> "", df |-> df,
                        entry |-> [original_skewness |-> original_skewness,
                                   new_skewness |-> original_skewness,
                                   method |-> method]]}
                 ELSE IF t.exc
                     THEN {[exc |-> TRUE, error |-> "transform failed", df |-> df,
                            entry |-> <<>>]}
                 ELSE {IF second.exc
                       THEN [exc |-> TRUE, error |-> "ValueError", df |-> transformed,
                             entry |-> <<>>]
                       ELSE [exc |-> FALSE, error |-> "", df |-> transformed,
                             entry |-> [original_skewness |-> original_skewness,
                                        new_skewness |-> second.v,
                                        method |-> method]]
                       : second \in compute_skewness(transformed[column])}
        : first \in compute_skewness(df[column])}

\* Faulty variant of correct_column without the except clause.
correct_column_unguarded(df, column) ==
    IF column \notin DOMAIN df
    THEN {[exc |-> FALSE, error |-> "", df |-> df, entry |-> ErrorEntry("Column not found")]}
    ELSE try_correct_column(df, column)

\* correct_column(df, column): the column check, then the try block, whose
\* except clause turns every exception into an error entry.
correct_column(df, column) ==
    IF column \notin DOMAIN df
    THEN {[exc |-> FALSE, error |-> "", df |-> df, entry |-> ErrorEntry("Column not found")]}
    ELSE {IF o.exc
          THEN [exc |-> FALSE, error |-> "", df |-> o.df, entry |-> ErrorEntry(o.error)]
          ELSE o
          : o \in try_correct_column(df, column)}

\* Faulty variant of df.copy() that hands out the object itself.
DataFrameAlias(h, ref) == [heap |-> h, ref |-> ref]

\* df.copy(): a new object with the same values; [heap, ref].
DataFrameCopy(h, ref) == [heap |-> (CopyRef :> h[ref]) @@ h, ref |-> CopyRef]

BatchCopy ==
    /\ op = "correct_multiple_columns"
    /\ pc = "copy"
    /\ LET c == DataFrameCopy(heap, args.df)
       IN  heap' = c.heap /\ df_corrected' = c.ref
    /\ pc' = "loop"
    /\ idx' = 1
    /\ UNCHANGED <<op, args, result, outcome, input>>

\* One pass of the loop; an exception leaving correct_column would leave
\* correct_multiple_columns as well.
BatchColumn ==
    /\ op = "correct_multiple_columns"
    /\ pc = "loop"
    /\ idx <= Len(args.columns)
    /\ \E o \in correct_column(heap[df_corrected], args.columns[idx]) :
        /\ heap' = [heap EXCEPT ![df_corrected] = o.df]
        /\ IF o.exc
           THEN /\ outcome' = "raised"
                /\ pc' = "done"
                /\ UNCHANGED <<result, idx>>
           ELSE /\ result' = DictSet(result, args.columns[idx], o.entry)
                /\ idx' = idx + 1
                /\ UNCHANGED <<pc, outcome>>
    /\ UNCHANGED <<op, args, input, df_corrected>>

BatchReturn ==
    /\ op = "correct_multiple_columns"
    /\ pc = "loop"
    /\ idx > Len(args.columns)
    /\ pc' = "done"
    /\ outcome' = "returned"
    /\ UNCHANGED <<op, heap, args, idx, result, input, df_corrected>>

\* correct_column called by itself on the caller's DataFrame.
ColumnCall ==
    /\ op = "correct_column"
    /\ pc = "call"
    /\ \E o \in correct_column(heap[args.df], args.column) :
        /\ heap' = [heap EXCEPT ![args.df] = o.df]
        /\ IF o.exc
           THEN outcome' = "raised" /\ UNCHANGED result
           ELSE outcome' = "returned" /\ result' = o.entry
    /\ pc' = "done"
    /\ UNCHANGED <<op, args, idx, input, df_corrected>>

\* Inputs: a fully enumerated column A next to a column B of a few shapes,
\* and longer tables of those shapes (the largest skewness n values can
\* have is (n - 2) / sqrt(n - 1): above 1 from 4 rows, above 2 from 7 rows,
\* above 3 from 12 rows).
ShapedColumns(n) ==
    {[i \in 1..n |-> IF i = n THEN Num(4) ELSE Num(0)],
     [i \in 1..n |-> IF i = 1 THEN Num(-1) ELSE Num(4)],
     [i \in 1..n |-> IF i = n THEN Num(4) ELSE Num(-1)],
     [i \in 1..n |-> Num(1)]}
LongRows == {4, 7, 12}
SkewTables ==
    UNION ({{[A |-> a, B |-> b] : a \in [1..n -> SkewCells], b \in ShapedColumns(n)}
            : n \in 0..MaxSkewRows}
           \cup {{[A |-> a, B |-> b] : a \in ShapedColumns(n), b \in ShapedColumns(n)}
                 : n \in LongRows})
SkewRequests ==
    {<<"A">>, <<"A", "B">>, <<"B", "A">>, <<"Z", "A">>, <<"A", "Z", "B">>, <<"A", "A">>}

InitSkewFix ==
    /\ \E t \in SkewTables : heap = (CallerRef :> t)
    /\ input = heap[CallerRef]
    /\ \/ /\ op = "correct_multiple_columns"
          /\ \E r \in SkewRequests : args = [df |-> CallerRef, columns |-> r]
          /\ pc = "copy"
       \/ /\ op = "correct_column"
          /\ \E c \in {"A", "Z"} : args = [df |-> CallerRef, column |-> c]
          /\ pc = "call"
    /\ idx = 0
    /\ result = EmptyDict
    /\ outcome = "running"
    /\ df_corrected = 0

NextSkewFix == BatchCopy \/ BatchColumn \/ BatchReturn \/ ColumnCall

SpecSkewFix == InitSkewFix /\ [][NextSkewFix]_vars

(***************************************************************************)
(* 4.3 Imbalance Correction Engine: sampling-strategy derivation           *)
(***************************************************************************)
MaxBiasRows == 4    \* rows of the tables given to apply_correction

\* df[col].astype(str): the text of every value, "nan" for a missing one.
astype_str(col) == [i \in DOMAIN col |-> Str(col, col[i])]

\* y.value_counts() of a series of strings.
class_counts(y) == [c \in Range(y) |-> Cardinality({i \in DOMAIN y : y[i] = c})]

\* A threshold argument: None, a value float() rejects, float('nan'), or
\* the number p/q.
ThresholdNone == [k |-> "none", p |-> 0, q |-> 1]
ThresholdText == [k |-> "text", p |-> 0, q |-> 1]
ThresholdNaN == [k |-> "nan", p |-> 0, q |-> 1]
ThresholdNum(p, q) == [k |-> "num", p |-> p, q |-> q]

\* A sampling strategy: 'auto', the float p/q, or a dict class -> count.
Auto == [kind |-> "auto"]
\* Faulty variant of the binary case that drops the threshold.
FloatStrategyDropped(p, q) == [kind |-> "auto"]
FloatStrategy(p, q) == [kind |-> "float", p |-> p, q |-> q]
DictStrategy(d) == [kind |-> "dict", d |-> d]

\* The multi-class oversampling dict: for every class below the majority
\* count, int(count + (majority_count - count) * thr) when that exceeds
\* the count.  p/q is a threshold the floats hold exactly.
oversample_dict(counts, p, q) ==
    LET majority_count == SetMax(Range(counts))
        target_count(cls) ==
            (counts[cls] * q + (majority_count - counts[cls]) * p) \div q
        chosen == {cls \in DOMAIN counts :
                      counts[cls] < majority_count /\ target_count(cls) > counts[cls]}
    IN  [cls \in chosen |-> target_count(cls)]

\* The multi-class undersampling dict: int(minority_count / thr) for every
\* class whose count exceeds it.
undersample_dict(counts, p, q) ==
    LET minority_count == SetMin(Range(counts))
        target_count == (minority_count * q) \div p
        chosen == {cls \in DOMAIN counts : counts[cls] > target_count}
    IN  [cls \in chosen |-> target_count]

\* The body of the try block of apply_correction (lines 63-107): the
\* strategy it assigns, or the exception it raises (float() of a value
\* that is no number, df[target_col] of an absent column).
try_sampling_strategy(df, target_col, method, threshold) ==
    IF threshold.k = "text" THEN [exc |-> TRUE, strategy |-> Auto]
    ELSE IF target_col \notin DOMAIN df THEN [exc |-> TRUE, strategy |-> Auto]
    ELSE IF threshold.k = "nan" THEN [exc |-> FALSE, strategy |-> Auto]
    ELSE LET p == threshold.p
             q == threshold.q
             y == astype_str(df[target_col])
             counts == class_counts(y)
             nunique == Cardinality(DOMAIN counts)
         IN  [exc |-> FALSE,
              strategy |->
                 IF 0 < p /\ p <= q
                 THEN IF nunique = 2 THEN FloatStrategy(p, q)
                      ELSE IF nunique > 2 /\ method \in {"oversample", "smote"}
                          THEN LET sampling_dict == oversample_dict(counts, p, q)
                               IN  IF DOMAIN sampling_dict # {}
                                   THEN DictStrategy(sampling_dict) ELSE Auto
                      ELSE IF nunique > 2 /\ method = "undersample"
                          THEN LET sampling_dict == undersample_dict(counts, p, q)
                               IN  IF DOMAIN sampling_dict # {}
                                   THEN DictStrategy(sampling_dict) ELSE Auto
                      ELSE Auto
                 ELSE Auto]

\* Faulty variant of the strategy derivation without the except clause.
sampling_strategy_unguarded(df, target_col, method, threshold) ==
    IF threshold.k = "none" THEN [exc |-> FALSE, strategy |-> Auto]
    ELSE try_sampling_strategy(df, target_col, method, threshold)

\* Lines 60-111 of apply_correction: 'auto' unless a threshold is given;
\* except Exception keeps every exception of the try block from the caller
\* and leaves 'auto'.
sampling_strategy_of(df, target_col, method, threshold) ==
    IF threshold.k = "none" THEN [exc |-> FALSE, strategy |-> Auto]
    ELSE LET t == try_sampling_strategy(df, target_col, method, threshold)
         IN  IF t.exc THEN [exc |-> FALSE, strategy |-> Auto] ELSE t

\* metadata["sampling_strategy"]: the float, "auto", or str() of the dict.
metadata_strategy(strategy) ==
    IF strategy.kind = "dict" THEN [kind |-> "str", d |-> strategy.d] ELSE strategy

(***************************************************************************)
(* 4.3 Imbalance Correction Engine: CategoricalTransformer                 *)
(***************************************************************************)
\* A new DataFrame object holding table (reset_index, iloc, pd.DataFrame).
NewDataFrame(h, table) == [heap |-> (CopyRef :> table) @@ h, ref |-> CopyRef]

\* Python's order of the strings the tables of this model hold.
TextOrder ==
    <<"1", "10", "11", "12", "13", "14", "15", "16", "17", "18", "19", "2", "20",
      "21", "3", "4", "5", "6", "7", "8", "9", "a", "b", "c", "nan", "x", "y">>
TextRank(t) == CHOOSE k \in DOMAIN TextOrder : TextOrder[k] = t

\* np.unique(y): the classes in sorted order.
sorted_classes(classes) == SelectSeq(TextOrder, LAMBDA t : t \in classes)

\* The elements of a set of positions in ascending order.
RECURSIVE Ascending(_)
Ascending(S) ==
    IF S = {} THEN <<>> ELSE <<SetMin(S)>> \o Ascending(S \ {SetMin(S)})

class_rows(y, cls) == {i \in DOMAIN y : y[i] = cls}

\* max(target_stats, key=target_stats.get) and its min counterpart: the
\* first class in sorted order that has the largest (smallest) count.
class_majority(counts) ==
    LET s == sorted_classes(DOMAIN counts)
        k == SetMin({i \in DOMAIN s : counts[s[i]] = SetMax(Range(counts))})
    IN  s[k]
class_minority(counts) ==
    LET s == sorted_classes(DOMAIN counts)
        k == SetMin({i \in DOMAIN s : counts[s[i]] = SetMin(Range(counts))})
    IN  s[k]

\* The sampler's check of the strategy for over-sampling: the number of
\* rows to add per class, or a ValueError.
over_sampling_strategy(counts, strategy) ==
    IF Cardinality(DOMAIN counts) <= 1 THEN [exc |-> TRUE, n |-> <<>>]
    ELSE IF strategy.kind = "auto"
        THEN [exc |-> FALSE,
              n |-> [cls \in DOMAIN counts \ {class_majority(counts)} |->
                        SetMax(Range(counts)) - counts[cls]]]
    ELSE IF strategy.kind = "float"
        THEN LET n == [cls \in DOMAIN counts \ {class_majority(counts)} |->
                          (SetMax(Range(counts)) * strategy.p - counts[cls] * strategy.q)
                              \div strategy.q]
             IN  IF Cardinality(DOMAIN counts) # 2 \/ \E cls \in DOMAIN n : n[cls] <= 0
                 THEN [exc |-> TRUE, n |-> <<>>]
                 ELSE [exc |-> FALSE, n |-> n]
    ELSE IF \/ ~(DOMAIN strategy.d \subseteq DOMAIN counts)
            \/ \E cls \in DOMAIN strategy.d : strategy.d[cls] < counts[cls]
        THEN [exc |-> TRUE, n |-> <<>>]
    ELSE [exc |-> FALSE, n |-> [cls \in DOMAIN strategy.d |-> strategy.d[cls] - counts[cls]]]

\* The same for under-sampling: the number of rows to keep per class.
under_sampling_strategy(counts, strategy) ==
    IF Cardinality(DOMAIN counts) <= 1 THEN [exc |-> TRUE, n |-> <<>>]
    ELSE IF strategy.kind = "auto"
        THEN [exc |-> FALSE,
              n |-> [cls \in DOMAIN counts \ {class_minority(counts)} |->
                        SetMin(Range(counts))]]
    ELSE IF strategy.kind = "float"
        THEN LET n == [cls \in DOMAIN counts \ {class_minority(counts)} |->
                          (SetMin(Range(counts)) * strategy.q) \div strategy.p]
             IN  IF Cardinality(DOMAIN counts) # 2 \/ \E cls \in DOMAIN n : n[cls] > counts[cls]
                 THEN [exc |-> TRUE, n |-> <<>>]
                 ELSE [exc |-> FALSE, n |-> n]
    ELSE IF \/ ~(DOMAIN strategy.d \subseteq DOMAIN counts)
            \/ \E cls \in DOMAIN strategy.d : strategy.d[cls] > counts[cls]
        THEN [exc |-> TRUE, n |-> <<>>]
    ELSE [exc |-> FALSE, n |-> strategy.d]

\* RandomOverSampler: for every class of the strategy, in sorted order,
\* n[cls] positions drawn with replacement among the rows of the class.
\* The generator is seeded, so one of these sequences is the one drawn;
\* the model keeps them all.
RECURSIVE bootstrap_indices(_, _, _)
bootstrap_indices(y, classes, n) ==
    IF classes = <<>> THEN {<<>>}
    ELSE {h \o t : h \in [1..n[Head(classes)] -> class_rows(y, Head(classes))],
                   t \in bootstrap_indices(y, Tail(classes), n)}

\* Faulty variant of the under-sampler that draws with replacement.
RECURSIVE idx_under_with_replacement(_, _, _)
idx_under_with_replacement(y, classes, n) ==
    IF classes = <<>> THEN {<<>>}
    ELSE LET cls == Head(classes)
             chosen == IF cls \in DOMAIN n
                       THEN [1..n[cls] -> class_rows(y, cls)]
                       ELSE {Ascending(class_rows(y, cls))}
         IN  {h \o t : h \in chosen, t \in idx_under_with_replacement(y, Tail(classes), n)}

\* RandomUnderSampler: for every class, in sorted order, n[cls] distinct
\* positions of the class in the order drawn, or all its positions in
\* ascending order when the strategy leaves the class alone.
RECURSIVE idx_under(_, _, _)
idx_under(y, classes, n) ==
    IF classes = <<>> THEN {<<>>}
    ELSE LET cls == Head(classes)
             chosen == IF cls \in DOMAIN n
                       THEN {h \in [1..n[cls] -> class_rows(y, cls)] :
                                \A i, j \in DOMAIN h : i # j => h[i] # h[j]}
                       ELSE {Ascending(class_rows(y, cls))}
         IN  {h \o t : h \in chosen, t \in idx_under(y, Tail(classes), n)}

\* df_reset.iloc[row_ids].reset_index(drop=True)
iloc(df, row_ids) ==
    [c \in DOMAIN df |-> [k \in 1..Len(row_ids) |-> df[c][row_ids[k]]]]

RowCount(df, target_col) == Len(df[target_col])

\* Faulty variant of oversample that takes the target values from the
\* resampled y (the strings) instead of the rows of the input.
oversample_resampled_target(df, target_col, strategy) ==
    IF target_col \notin DOMAIN df THEN {[exc |-> TRUE, df |-> df]}
    ELSE LET y == astype_str(df[target_col])
             counts == class_counts(y)
             st == over_sampling_strategy(counts, strategy)
         IN  IF RowCount(df, target_col) = 0 \/ st.exc THEN {[exc |-> TRUE, df |-> df]}
             ELSE {[exc |-> FALSE,
                    df |-> [iloc(df, [k \in 1..Len(y) |-> k] \o b) EXCEPT
                               ![target_col] = [k \in DOMAIN @ |-> Word(@[k].s)]]]
                   : b \in bootstrap_indices(y, sorted_classes(DOMAIN st.n), st.n)}

\* CategoricalTransformer.oversample: the tables it can return, or a raise
\* (KeyError of drop for an absent target, ValueError of the sampler for
\* an empty table, a single class or a strategy it rejects).
oversample(df, target_col, strategy) ==
    IF target_col \notin DOMAIN df THEN {[exc |-> TRUE, df |-> df]}
    ELSE LET y == astype_str(df[target_col])
             counts == class_counts(y)
             st == over_sampling_strategy(counts, strategy)
         IN  IF RowCount(df, target_col) = 0 \/ st.exc THEN {[exc |-> TRUE, df |-> df]}
             ELSE {[exc |-> FALSE,
                    df |-> iloc(df, [k \in 1..Len(y) |-> k] \o b)]
                   : b \in bootstrap_indices(y, sorted_classes(DOMAIN st.n), st.n)}

\* CategoricalTransformer.undersample
undersample(df, target_col, strategy) ==
    IF target_col \notin DOMAIN df THEN {[exc |-> TRUE, df |-> df]}
    ELSE LET y == astype_str(df[target_col])
             counts == class_counts(y)
             st == under_sampling_strategy(counts, strategy)
         IN  IF RowCount(df, target_col) = 0 \/ st.exc THEN {[exc |-> TRUE, df |-> df]}
             ELSE {[exc |-> FALSE, df |-> iloc(df, row_ids)]
                   : row_ids \in idx_under(y, sorted_classes(DOMAIN counts), st.n)}

\* pd.Categorical(col).codes: the rank of the value among the sorted
\* distinct values of the column, -1 for a missing value.
codes(col) ==
    [i \in DOMAIN col |->
        IF IsNA(col[i]) THEN Num(-1)
        ELSE Num(Cardinality({t \in {col[j].s : j \in dropna(col)} :
                                 TextRank(t) < TextRank(col[i].s)}))]

\* s.fillna(s.mean()) of a numeric column; the mean of no value is NaN.
fillna_mean(col) ==
    [i \in DOMAIN col |->
        IF IsNA(col[i]) /\ dropna(col) # {} THEN Sym("mean", 0) ELSE col[i]]

\* Neighbours a class needs before SMOTE can synthesize from it
\* (k_neighbors = 5 and the sample itself).
SmoteNeighbors == 6

\* Faulty variant of the synthesis that interpolates every feature.
RECURSIVE synthetic_rows_all_interpolated(_, _, _, _, _)
synthetic_rows_all_interpolated(X, y, classes, n, categorical_features) ==
    IF classes = <<>> THEN {<<>>}
    ELSE LET cls == Head(classes)
             row == [c \in DOMAIN X |-> Sym("smote", 0)]
         IN  {h \o t : h \in [1..n[cls] -> {[cls |-> cls, row |-> row]}],
                       t \in synthetic_rows_all_interpolated(X, y, Tail(classes), n,
                                                             categorical_features)}

\* The rows SMOTE and SMOTE-NC append: for every class of the strategy, in
\* sorted order, n[cls] rows whose numeric features are interpolated and
\* whose categorical features take a code that occurs in the class.
RECURSIVE synthetic_rows(_, _, _, _, _)
synthetic_rows(X, y, classes, n, categorical_features) ==
    IF classes = <<>> THEN {<<>>}
    ELSE LET cls == Head(classes)
             row == {r \in [DOMAIN X -> UNION {Range(X[c]) : c \in DOMAIN X}
                                            \cup {Sym("smote", 0)}] :
                        \A c \in DOMAIN X :
                            IF c \in categorical_features
                            THEN r[c] \in {X[c][i] : i \in class_rows(y, cls)}
                            ELSE r[c] = Sym("smote", 0)}
         IN  {h \o t : h \in [1..n[cls] -> [cls : {cls}, row : row]],
                       t \in synthetic_rows(X, y, Tail(classes), n, categorical_features)}

\* The exception a transformer raises: what failed and the columns its
\* message names.
Error(type, columns) == [type |-> type, columns |-> columns]

\* Faulty variant of the feature check that finds no column.
non_numeric_cols_unchecked(df, columns) == {}

\* The feature columns of dtype object (lines 149-150).
non_numeric_cols(df, columns) == {c \in columns : Dtype(df[c]) = "object"}

\* CategoricalTransformer.smote: the tables it can return, or a raise:
\* KeyError of drop for an absent target, the ValueError of line 117 when
\* no listed categorical column is a feature, the ValueError of line 152
\* naming the non-numeric features, or the sampler's ValueError.
smote(df, target_col, sampling_strategy, categorical_columns) ==
    IF target_col \notin DOMAIN df
    THEN {[exc |-> TRUE, error |-> Error("key", {target_col}), df |-> df]}
    ELSE LET columns == DOMAIN df \ {target_col}
             y == astype_str(df[target_col])
             counts == class_counts(y)
             nunique == Cardinality(DOMAIN counts)
             strategy == IF sampling_strategy.kind = "float" /\ nunique > 2
                         THEN Auto ELSE sampling_strategy
             categorical_features ==
                 IF categorical_columns = <<>> THEN {}
                 ELSE {c \in Range(categorical_columns) : c \in columns}
             X == [c \in columns |->
                     IF c \in categorical_features
                     THEN IF Dtype(df[c]) = "object" THEN codes(df[c])
                          ELSE fillna_mean(df[c])
                     ELSE fillna_mean(df[c])]
             st == over_sampling_strategy(counts, strategy)
             rejected ==
                 \/ RowCount(df, target_col) = 0
                 \/ columns = {}
                 \/ categorical_columns # <<>> /\ categorical_features = columns
                 \/ \E c \in columns \ categorical_features : Dtype(df[c]) = "object"
                 \/ \E c \in columns : \E i \in DOMAIN X[c] : IsNA(X[c][i])
                 \/ st.exc
                 \/ \E cls \in DOMAIN st.n :
                        st.n[cls] > 0 /\ counts[cls] < SmoteNeighbors
         IN  IF categorical_columns # <<>> /\ categorical_features = {}
                 THEN {[exc |-> TRUE, error |-> Error("no categorical column", {}), df |-> df]}
             ELSE IF categorical_columns = <<>> /\ non_numeric_cols(df, columns) # {}
                 THEN {[exc |-> TRUE,
                        error |-> Error("non-numeric features", non_numeric_cols(df, columns)),
                        df |-> df]}
             ELSE IF rejected
                 THEN {[exc |-> TRUE, error |-> Error("sampler", {}), df |-> df]}
             ELSE {[exc |-> FALSE, error |-> Error("", {}),
                    df |-> [c \in DOMAIN df |->
                              IF c = target_col
                              THEN [i \in DOMAIN y |-> Word(y[i])]
                                   \o [k \in DOMAIN new |-> Word(new[k].cls)]
                              ELSE X[c] \o [k \in DOMAIN new |-> new[k].row[c]]]]
                   : new \in synthetic_rows(X, y, sorted_classes(DOMAIN st.n), st.n,
                                            categorical_features)}

\* Faulty variant of compute_class_weights that leaves out the number of
\* classes.
compute_class_weights_per_count(y) ==
    LET counts == class_counts(y)
    IN  [cls \in DOMAIN counts |-> <<Len(y), counts[cls]>>]

\* CategoricalTransformer.compute_class_weights: n_samples /
\* (n_classes * count) per class, as a pair numerator, denominator.
compute_class_weights(y) ==
    LET counts == class_counts(y)
    IN  [cls \in DOMAIN counts |->
            <<Len(y), Cardinality(DOMAIN counts) * counts[cls]>>]

(***************************************************************************)
(* 4.3 Imbalance Correction Engine: BiasCorrectionService.apply_correction *)
(***************************************************************************)
\* method.lower() of the method strings of this model.
lower(method) == IF method = "SMOTE" THEN "smote" ELSE method

\* validate_method: method.lower() in VALID_METHODS.
validate_method(method) ==
    lower(method) \in {"oversample", "undersample", "smote", "reweight"}

\* validate_target_column: (is_valid, error_message).  The target has to
\* exist and to be categorical: of dtype object, or with at most 20
\* distinct values that are not missing.
CategoricalLimit == 20
validate_target_column(df, target_col) ==
    IF target_col \notin DOMAIN df
    THEN [is_valid |-> FALSE, error_message |-> "not found in dataset"]
    ELSE LET y == df[target_col]
             nunique == Cardinality({y[i] : i \in dropna(y)})
             is_categorical == Dtype(y) = "object" \/ nunique <= CategoricalLimit
         IN  IF ~is_categorical
             THEN [is_valid |-> FALSE, error_message |-> "Target column is not categorical"]
             ELSE [is_valid |-> TRUE, error_message |-> "None"]

BiasCall == op = "apply_correction" /\ pc = "call"
BiasDf == heap[args.df]
BiasDerivation == sampling_strategy_of(BiasDf, args.target_col, args.method, args.threshold)
BiasStrategy == BiasDerivation.strategy
BiasMetadata ==
    [method |-> args.method, sampling_strategy |-> metadata_strategy(BiasStrategy)]

\* The end of a call: the returned tuple (a new DataFrame and the
\* metadata), or the exception that leaves the call and the step it left
\* from.
BiasFinish(o, metadata) ==
    /\ IF BiasDerivation.exc
       THEN /\ outcome' = "raised"
            /\ result' = [raised_in |-> "sampling_strategy"]
            /\ UNCHANGED <<heap, df_corrected>>
       ELSE IF o.exc
       THEN /\ outcome' = "raised"
            /\ result' = [raised_in |-> "correction"]
            /\ UNCHANGED <<heap, df_corrected>>
       ELSE /\ outcome' = "returned"
            /\ LET c == NewDataFrame(heap, o.df)
               IN  /\ heap' = c.heap
                   /\ df_corrected' = c.ref
                   /\ result' = [df |-> c.ref, metadata |-> metadata]
    /\ pc' = "done"
    /\ UNCHANGED <<op, args, idx, input>>

\* method == "reweight".  compute_class_weight is handed the classes as a
\* list; library versions that insist on an array reject it.
ApplyReweight ==
    /\ BiasCall
    /\ args.method = "reweight"
    /\ IF args.target_col \notin DOMAIN BiasDf
       THEN BiasFinish([exc |-> TRUE, df |-> BiasDf], BiasMetadata)
       ELSE \E array_required \in BOOLEAN :
               BiasFinish([exc |-> array_required, df |-> BiasDf],
                          BiasMetadata
                              @@ [class_weights |->
                                     compute_class_weights(astype_str(BiasDf[args.target_col]))])

ApplyOversample ==
    /\ BiasCall
    /\ args.method = "oversample"
    /\ \E o \in oversample(BiasDf, args.target_col, BiasStrategy) :
          BiasFinish(o, BiasMetadata)

ApplyUndersample ==
    /\ BiasCall
    /\ args.method = "undersample"
    /\ \E o \in undersample(BiasDf, args.target_col, BiasStrategy) :
          BiasFinish(o, BiasMetadata)

ApplySmote ==
    /\ BiasCall
    /\ args.method = "smote"
    /\ \E o \in smote(BiasDf, args.target_col, BiasStrategy, args.categorical_columns) :
          BiasFinish(o, IF args.categorical_columns # <<>>
                        THEN BiasMetadata
                                 @@ [categorical_columns |-> args.categorical_columns]
                        ELSE BiasMetadata)

\* Any other method: ValueError("Unsupported method").
ApplyUnsupported ==
    /\ BiasCall
    /\ args.method \notin {"reweight", "oversample", "undersample", "smote"}
    /\ BiasFinish([exc |-> TRUE, df |-> BiasDf], BiasMetadata)

\* Inputs: a fully enumerated target column T (three classes and missing
\* values) next to a numeric feature F and a text feature G, and one longer
\* table on which SMOTE has the neighbours it needs.
ClassCells == {Word("a"), Word("b"), Word("c"), NaN}
FeatureF(n) == [i \in 1..n |-> IF i = 1 THEN NaN ELSE Num(i)]
FeatureG(n) == [i \in 1..n |-> IF i % 2 = 1 THEN Word("x") ELSE Word("y")]
LongBiasRows == 13
LongTarget ==
    [i \in 1..LongBiasRows |-> IF i <= SmoteNeighbors THEN Word("b") ELSE Word("a")]
\* A numeric target with one value more than the policy calls categorical.
WideTarget == [i \in 1..(CategoricalLimit + 1) |-> Num(i)]
BiasTargets ==
    UNION {[1..n -> ClassCells] : n \in 0..MaxBiasRows} \cup {LongTarget, WideTarget}
BiasMethods == {"reweight", "oversample", "undersample", "smote", "SMOTE", "resample"}
BiasThresholds ==
    {ThresholdNone, ThresholdText, ThresholdNaN, ThresholdNum(0, 1),
     ThresholdNum(1, 2), ThresholdNum(3, 4), ThresholdNum(1, 1), ThresholdNum(3, 2)}
BiasCategoricalColumns == {<<>>, <<"G">>, <<"T", "Q">>}

InitBias ==
    /\ op = "apply_correction"
    /\ \E t \in BiasTargets, m \in BiasMethods, numeric_only \in BOOLEAN :
          /\ numeric_only => lower(m) = "smote"
          /\ t = LongTarget => lower(m) = "smote"
          /\ t = WideTarget => m \in {"oversample", "undersample"}
          /\ heap = (CallerRef :>
                        IF numeric_only
                        THEN [T |-> t, F |-> FeatureF(Len(t))]
                        ELSE [T |-> t, F |-> FeatureF(Len(t)), G |-> FeatureG(Len(t))])
          /\ \E thr \in BiasThresholds, cc \in BiasCategoricalColumns,
                target_col \in {"T", "Z"} :
                /\ cc # <<>> => m = "smote"
                /\ target_col = "Z" => thr \in {ThresholdNone, ThresholdNum(1, 2)}
                /\ t = WideTarget => (thr = ThresholdNone /\ target_col = "T")
                /\ args = [df |-> CallerRef, target_col |-> target_col, method |-> m,
                           threshold |-> thr, categorical_columns |-> cc]
    /\ input = heap[CallerRef]
    /\ pc = "call"
    /\ idx = 0
    /\ result = EmptyDict
    /\ outcome = "running"
    /\ df_corrected = 0

NextBias ==
    ApplyReweight \/ ApplyOversample \/ ApplyUndersample \/ ApplySmote \/ ApplyUnsupported

SpecBias == InitBias /\ [][NextBias]_vars

(***************************************************************************)
(* CategoricalTransformer called by itself                                 *)
(***************************************************************************)
\* The end of a call: the returned DataFrame (a new object) or the
\* exception that leaves the call.
SamplerFinish(o) ==
    /\ IF o.exc
       THEN /\ outcome' = "raised"
            /\ result' = [error |-> IF "error" \in DOMAIN o THEN o.error
                                     ELSE Error("sampler", {})]
            /\ UNCHANGED <<heap, df_corrected>>
       ELSE /\ outcome' = "returned"
            /\ LET c == NewDataFrame(heap, o.df)
               IN  /\ heap' = c.heap
                   /\ df_corrected' = c.ref
                   /\ result' = [df |-> c.ref]
    /\ pc' = "done"
    /\ UNCHANGED <<op, args, idx, input>>

Oversample ==
    /\ op = "oversample" /\ pc = "call"
    /\ \E o \in oversample(heap[args.df], args.target_col, args.sampling_strategy) :
          SamplerFinish(o)

Undersample ==
    /\ op = "undersample" /\ pc = "call"
    /\ \E o \in undersample(heap[args.df], args.target_col, args.sampling_strategy) :
          SamplerFinish(o)

Smote ==
    /\ op = "smote" /\ pc = "call"
    /\ \E o \in smote(heap[args.df], args.target_col, args.sampling_strategy,
                      args.categorical_columns) :
          SamplerFinish(o)

\* Inputs: the tables of apply_correction with every strategy a caller can
\* pass ('auto', a float, a dict of counts for one or two classes) and,
\* for smote, lists of categorical columns.
InitSampler ==
    LET dicts == UNION {[S -> 0..MaxBiasRows] : S \in SUBSET {"a", "b"} \ {{}}}
        strategies ==
            {Auto, FloatStrategy(1, 2), FloatStrategy(3, 4), FloatStrategy(1, 1)}
                \cup {DictStrategy(d) : d \in dicts}
        categorical_columns == {<<>>, <<"G">>, <<"G", "Q">>, <<"T">>, <<"F", "G">>}
    IN  /\ op \in {"oversample", "undersample", "smote"}
        /\ \E t \in BiasTargets, numeric_only \in BOOLEAN :
              /\ (numeric_only \/ t = LongTarget) => op = "smote"
              /\ heap = (CallerRef :>
                            IF numeric_only
                            THEN [T |-> t, F |-> FeatureF(Len(t))]
                            ELSE [T |-> t, F |-> FeatureF(Len(t)), G |-> FeatureG(Len(t))])
        /\ \E st \in strategies, cc \in categorical_columns :
              /\ cc # <<>> => op = "smote"
              /\ (op = "smote" /\ st.kind = "dict") => DOMAIN st.d = {"b"}
              /\ args = [df |-> CallerRef, target_col |-> "T", sampling_strategy |-> st,
                         categorical_columns |-> cc]
        /\ input = heap[CallerRef]
        /\ pc = "call"
        /\ idx = 0
        /\ result = EmptyDict
        /\ outcome = "running"
        /\ df_corrected = 0

NextSampler == Oversample \/ Undersample \/ Smote

SpecSampler == InitSampler /\ [][NextSampler]_vars

(***************************************************************************)
(* apply_correction called again with the same arguments                   *)
(***************************************************************************)
\* random_state: int = 42 is the default of oversample, undersample and
\* smote, and apply_correction never passes another value.
random_state == 42

\* Faulty variant that draws from the process-wide generator, whose
\* position moves on with every call (idx counts the calls made).
RECURSIVE RandomStateGlobal(_, _)
RandomStateGlobal(seed, outcomes) ==
    LET first == CHOOSE o \in outcomes : TRUE
        position == IF seed = random_state THEN idx ELSE seed
    IN  IF position % Cardinality(outcomes) = 0 THEN first
        ELSE RandomStateGlobal((position % Cardinality(outcomes)) - 1,
                               outcomes \ {first})

\* A sampler built with an integer random_state starts a fresh generator
\* from that seed, so what it draws is a function of the seed and of what
\* it draws from.  Which function is left open: the draw is the element
\* the seed reaches in a fixed enumeration of the possible outcomes.
RECURSIVE RandomState(_, _)
RandomState(seed, outcomes) ==
    LET first == CHOOSE o \in outcomes : TRUE
    IN  IF seed % Cardinality(outcomes) = 0 THEN first
        ELSE RandomState((seed % Cardinality(outcomes)) - 1, outcomes \ {first})

\* One call as a function of its arguments and of the installed library
\* (array_required: compute_class_weight rejects a list of classes).
apply_correction(df, target_col, method, threshold, categorical_columns, array_required) ==
    LET derivation == sampling_strategy_of(df, target_col, method, threshold)
        sampling_strategy == derivation.strategy
        metadata == [method |-> method,
                     sampling_strategy |-> metadata_strategy(sampling_strategy)]
        o == CASE method = "reweight" ->
                      [exc |-> target_col \notin DOMAIN df \/ array_required, df |-> df]
               [] method = "oversample" ->
                      RandomState(random_state,
                                  oversample(df, target_col, sampling_strategy))
               [] method = "undersample" ->
                      RandomState(random_state,
                                  undersample(df, target_col, sampling_strategy))
               [] method = "smote" ->
                      RandomState(random_state,
                                  smote(df, target_col, sampling_strategy,
                                        categorical_columns))
               [] OTHER -> [exc |-> TRUE, df |-> df]
        extra == CASE method = "reweight" ->
                          [class_weights |->
                              compute_class_weights(astype_str(df[target_col]))]
                   [] method = "smote" /\ categorical_columns # <<>> ->
                          [categorical_columns |-> categorical_columns]
                   [] OTHER -> EmptyDict
    IN  IF derivation.exc THEN [raised_in |-> "sampling_strategy"]
        ELSE IF o.exc THEN [raised_in |-> "correction"]
        ELSE [df |-> o.df, metadata |-> metadata @@ extra]

\* The caller calls apply_correction on its table, and then once more with
\* the same arguments; result collects what the calls gave back, a
\* returned table being a new object of the heap.
RepeatCalls == 2
Repeat ==
    /\ op = "repeat"
    /\ idx < RepeatCalls
    /\ LET r == apply_correction(heap[args.df], args.target_col, args.method,
                                 args.threshold, args.categorical_columns,
                                 args.array_required)
           ref == CopyRef + idx
       IN  IF "df" \in DOMAIN r
           THEN /\ heap' = (ref :> r.df) @@ heap
                /\ df_corrected' = ref
                /\ result' = Append(result, [r EXCEPT !.df = ref])
                /\ outcome' = "returned"
           ELSE /\ result' = Append(result, r)
                /\ outcome' = "raised"
                /\ UNCHANGED <<heap, df_corrected>>
    /\ idx' = idx + 1
    /\ pc' = IF idx' = RepeatCalls THEN "done" ELSE "call"
    /\ UNCHANGED <<op, args, input>>

InitRepeat ==
    /\ op = "repeat"
    /\ \E t \in BiasTargets, m \in BiasMethods \ {"SMOTE"},
          thr \in {ThresholdNone, ThresholdNum(1, 2), ThresholdNum(1, 1)},
          cc \in {<<>>, <<"G">>}, array_required \in BOOLEAN :
          /\ t = LongTarget => m = "smote"
          /\ cc # <<>> => m = "smote"
          /\ array_required => m = "reweight"
          /\ heap = (CallerRef :> [T |-> t, F |-> FeatureF(Len(t)), G |-> FeatureG(Len(t))])
          /\ args = [df |-> CallerRef, target_col |-> "T", method |-> m,
                     threshold |-> thr, categorical_columns |-> cc,
                     array_required |-> array_required]
    /\ input = heap[CallerRef]
    /\ pc = "call"
    /\ idx = 0
    /\ result = <<>>
    /\ outcome = "running"
    /\ df_corrected = 0

SpecRepeat == InitRepeat /\ [][Repeat]_vars

(***************************************************************************)
(* The legacy dispatcher: utils/continuous_data/skew.py                    *)
(***************************************************************************)
\* handle_skew(df, col, skew_val): the column is assigned in place; every
\* value no band of the if-chain takes ends in handle_extreme_skew.
handle_skew(series, skew_val) ==
    IF GT(skew_val, 1, 2) /\ LE(skew_val, 2, 1)
    THEN IF GT(skew_val, 1, 2) /\ LE(skew_val, 1, 1) THEN apply_square_root(series)
         ELSE apply_log(series)
    ELSE IF LT(skew_val, -1, 2) /\ GE(skew_val, -2, 1)
    THEN IF LT(skew_val, -1, 2) /\ GE(skew_val, -1, 1) THEN apply_square_power(series)
         ELSE apply_cube_power(series)
    ELSE IF \/ (GT(skew_val, 2, 1) /\ LE(skew_val, 3, 1))
            \/ (LT(skew_val, -2, 1) /\ GE(skew_val, -3, 1)) THEN apply_yeo_johnson(series)
    ELSE apply_quantile_transformer(series)

HandleSkew ==
    /\ op = "handle_skew"
    /\ pc = "call"
    /\ LET t == handle_skew(heap[args.df][args.col], args.skew_val)
       IN  /\ heap' = [heap EXCEPT ![args.df][args.col] = t.series]
           /\ outcome' = IF t.exc THEN "raised" ELSE "returned"
    /\ pc' = "done"
    /\ UNCHANGED <<op, args, idx, result, input, df_corrected>>

InitHandleSkew ==
    /\ op = "handle_skew"
    /\ \E a \in TransformSeries : heap = (CallerRef :> [A |-> a, B |-> a])
    /\ input = heap[CallerRef]
    /\ df_corrected = 0
    /\ \E skew_val \in {Rational(r[1], r[2]) : r \in SkewInputs} \cup {SkewNaN} :
          args = [df |-> CallerRef, col |-> "A", skew_val |-> skew_val]
    /\ pc = "call"
    /\ idx = 0
    /\ result = EmptyDict
    /\ outcome = "running"

SpecHandleSkew == InitHandleSkew /\ [][HandleSkew]_vars

(***************************************************************************)
(* Column-type store: SetColumnTypes.post                                  *)
(***************************************************************************)
\* The files of the uploads directory with the columns read_csv finds.
Uploads == [a |-> {"A", "B"}, b |-> {"B", "1"}]

\* What os.path makes of a file_path: whether it is absolute, whether it
\* stays within uploads/, and the file it names ("" when none exists).
Paths ==
    [x \in {"uploads/a.csv", "uploads/./a.csv", "uploads/b.csv", "uploads/gone.csv",
            "/srv/a.csv", "uploads/../a.csv"} |->
        [isabs |-> x = "/srv/a.csv",
         within |-> x \notin {"/srv/a.csv", "uploads/../a.csv"},
         file |-> CASE x \in {"uploads/a.csv", "uploads/./a.csv"} -> "a"
                    [] x = "uploads/b.csv" -> "b"
                    [] OTHER -> ""]]

\* Faulty variant of dedupe that keeps every element.
dedupe_keeps_all(seq) == seq

\* dedupe: the first occurrence of every element, in order.
dedupe(seq) ==
    LET RECURSIVE out(_)
        out(k) == IF k = 0 THEN <<>>
                  ELSE IF \E j \in 1..(k - 1) : seq[j] = seq[k] THEN out(k - 1)
                  ELSE Append(out(k - 1), seq[k])
    IN  out(Len(seq))

\* The handler: the response and the store it leaves.  store is
\* app.config["COLUMN_TYPES_STORE"], data the JSON body with lists of
\* column names (strings or numbers).
set_column_types(store, data) ==
    LET file_path == data.file_path
        reject(error) == [status |-> 400, error |-> error, store |-> store]
    IN  IF file_path = "" THEN reject("'file_path' is required in JSON body.")
        ELSE IF Paths[file_path].isabs THEN reject("Absolute paths are not allowed.")
        ELSE IF ~Paths[file_path].within THEN reject("Invalid file_path.")
        ELSE IF Paths[file_path].file = "" THEN reject("File not found")
        ELSE LET df_col_set == Uploads[Paths[file_path].file]
                 cat_cols == dedupe([k \in DOMAIN data.categorical |-> data.categorical[k].s])
                 cont_cols == dedupe([k \in DOMAIN data.continuous |-> data.continuous[k].s])
                 missing_cat == SelectSeq(cat_cols, LAMBDA c : c \notin df_col_set)
                 missing_cont == SelectSeq(cont_cols, LAMBDA c : c \notin df_col_set)
                 overlaps == Range(cat_cols) \cap Range(cont_cols)
             IN  IF missing_cat # <<>> \/ missing_cont # <<>>
                 THEN reject("Some columns were not found in the dataset.")
                 ELSE IF overlaps # {}
                 THEN reject("Columns overlap between 'categorical' and 'continuous'.")
                 ELSE [status |-> 200, error |-> "",
                       store |-> DictSet(store, file_path,
                                         [categorical |-> cat_cols,
                                          continuous |-> cont_cols])]

\* The requests: column lists with repeated, missing and numeric names.
MaxRequests == 3
ColumnLists ==
    {<<>>, <<Word("B")>>, <<Word("B"), Word("A"), Word("B")>>,
     <<Num(1), NumText(1)>>, <<Word("A"), Word("Q")>>}
StoreRequests ==
    [file_path : DOMAIN Paths \cup {""}, categorical : ColumnLists,
     continuous : ColumnLists]

\* One request handled from its arrival to its response; input keeps the
\* store the request found.
SetColumnTypes ==
    /\ op = "set_column_types"
    /\ idx < MaxRequests
    /\ \E data \in StoreRequests :
          LET r == set_column_types(heap.COLUMN_TYPES_STORE, data)
          IN  /\ args' = data
              /\ input' = heap.COLUMN_TYPES_STORE
              /\ heap' = [heap EXCEPT !.COLUMN_TYPES_STORE = r.store]
              /\ result' = [status |-> r.status, error |-> r.error]
    /\ idx' = idx + 1
    /\ outcome' = "returned"
    /\ UNCHANGED <<op, pc, df_corrected>>

\* app.config["COLUMN_TYPES_STORE"] = {} at start-up.
InitStore ==
    /\ op = "set_column_types"
    /\ heap = [COLUMN_TYPES_STORE |-> EmptyDict]
    /\ args = EmptyDict
    /\ input = EmptyDict
    /\ pc = "serving"
    /\ idx = 0
    /\ result = EmptyDict
    /\ outcome = "running"
    /\ df_corrected = 0

SpecStore == InitStore /\ [][SetColumnTypes]_vars

(***************************************************************************)
(* The correction operations of both engines                               *)
(***************************************************************************)
InitCorrection == InitSkewFix \/ InitBias

NextCorrection == NextSkewFix \/ NextBias

SpecCorrection == InitCorrection /\ [][NextCorrection]_vars

(***************************************************************************)
(* Claims about the Distribution Analyzer                                  *)
(***************************************************************************)
DetectProcessed == {args.categorical_columns[j] : j \in 1..(idx - 1)}
HasData(c) ==
    c \in DOMAIN DetectDf /\ \E i \in DOMAIN DetectDf[c] : DetectDf[c][i].kind # "nan"
FloatKeys(entry) == {k \in DOMAIN entry : entry[k].t = "float"}

\* The severity the contract asks for: the ratio of the exact proportions
\* count/total, i.e. of the smallest to the largest class count.
ContractSeverity(col) ==
    LET vc == value_counts(col)
        lo == SetMin(Range(vc))
        hi == SetMax(Range(vc))
    IN  IF Cardinality(DOMAIN vc) = 1 THEN "Severe"
        ELSE IF 2 * lo >= hi THEN "Low"
        ELSE IF 5 * lo >= hi THEN "Moderate"
        ELSE "Severe"

DistinctStrings(col) ==
    \A v, w \in DOMAIN value_counts(col) : Str(col, v) = Str(col, w) => v = w

\* C1: for a column with a non-missing value the reported severity is Low
\* exactly when min/max of the proportions count/total is >= 0.5, Moderate
\* exactly when it is in [0.2, 0.5), Severe exactly when it is < 0.2 or the
\* column has one distinct value.  Stated for the columns whose values have
\* pairwise distinct string forms (no two values share a dictionary key).
C1_SeverityFromExactRatio ==
    op = "detect_imbalance" =>
        \A c \in DetectProcessed :
            (HasData(c) /\ DistinctStrings(DetectDf[c])) =>
                result[c]["severity"].v = ContractSeverity(DetectDf[c])

\* C2: a requested column that is absent or has no non-missing value gets
\* an entry {severity: N/A, note: ...} without proportions, the call does
\* not fail, and every other requested column still gets its entry.
C2_NAEntryAndContinue ==
    op = "detect_imbalance" =>
        /\ outcome # "raised"
        /\ outcome = "running" => ENABLED NextDetect
        /\ outcome = "returned" => idx = Len(args.categorical_columns) + 1
        /\ \A c \in DetectProcessed :
            /\ c \in DOMAIN result
            /\ ~HasData(c) =>
                /\ DOMAIN result[c] = {"severity", "note"}
                /\ result[c]["severity"] = StrVal("N/A")
                /\ result[c]["note"].t = "str"
                /\ FloatKeys(result[c]) = {}
            /\ HasData(c) =>
                /\ result[c]["severity"].v \in {"Low", "Moderate", "Severe"}

\* Witness of C2: the call returned, an absent column and an all-missing
\* column got N/A entries and a column listed after them was classified.
C2_Witness ==
    /\ op = "detect_imbalance"
    /\ outcome = "returned"
    /\ args.categorical_columns = <<"A", "Z", "B">>
    /\ ~HasData("A") /\ "A" \in DOMAIN DetectDf
    /\ result["A"]["note"] = StrVal("No data")
    /\ result["Z"]["note"] = StrVal("Column not found")
    /\ HasData("B") /\ result["B"]["severity"] = StrVal("Severe")

\* C3: the proportions returned for a column with a non-missing value sum
\* to 1 within 0.0000005 per distinct value (in millionths: twice the
\* distance from 10^6 is at most the number of distinct values).
C3_ProportionsSumToOne ==
    op = "detect_imbalance" =>
        \A c \in DetectProcessed :
            HasData(c) =>
                LET entry == result[c]
                    total == SumOver([k \in FloatKeys(entry) |-> entry[k].v], FloatKeys(entry))
                    k == Cardinality(DOMAIN value_counts(DetectDf[c]))
                    dist == IF total >= Million THEN total - Million ELSE Million - total
                IN  2 * dist <= k

(***************************************************************************)
(* Claims about the Skewness Analyzer                                      *)
(***************************************************************************)
\* The values of a series that coercion to numeric keeps: numbers and
\* numeric text.
Coercible(series) ==
    {i \in DOMAIN series :
        series[i].kind = "num" \/ (series[i].kind = "str" /\ series[i].p)}

\* C4: compute_skewness returns None without raising when no value remains
\* after coercion, raises when exactly one remains and returns a float
\* when two or more remain.
C4_SkewnessByUsableCount ==
    (op = "detect_skewness" /\ pc = "done" /\ args.column \in DOMAIN input) =>
        LET k == Cardinality(Coercible(input[args.column]))
        IN  /\ k = 0 => (outcome = "returned" /\ result.skewness = SkewNone)
            /\ k = 1 => outcome = "raised"
            /\ k >= 2 => (outcome = "returned" /\ result.skewness.k \in {"val", "nan"})

\* Witness of C4: a series with text, a missing value and two numbers (one
\* of them numeric text) got a skewness.
C4_Witness ==
    /\ op = "detect_skewness" /\ pc = "done"
    /\ args.column = "A"
    /\ input["A"] = <<Word("x"), NumText(4), Num(1)>>
    /\ outcome = "returned"
    /\ result.skewness = Rational(0, 1)

(***************************************************************************)
(* Claims about the method-selection table                                 *)
(***************************************************************************)
\* The method the table gives for the float p/q (q > 0).
TableMethod(p, q) ==
    IF 2 * Abs(p) <= q THEN "None (already symmetric)"
    ELSE IF 2 * p > q /\ p <= q THEN "Square Root"
    ELSE IF p > q /\ p <= 2 * q THEN "Log Transformation"
    ELSE IF 2 * p < -q /\ p >= -q THEN "Squared Power"
    ELSE IF p < -q /\ p >= -2 * q THEN "Cubed Power"
    ELSE IF (p > 2 * q /\ p <= 3 * q) \/ (p < -2 * q /\ p >= -3 * q) THEN "Yeo-Johnson"
    ELSE "Quantile Transformer"

\* What applying a named method to a series gives.
MethodResult(method, series) ==
    CASE method = "None (already symmetric)" -> Done(series)
      [] method = "Square Root" -> apply_square_root(series)
      [] method = "Log Transformation" -> apply_log(series)
      [] method = "Squared Power" -> apply_square_power(series)
      [] method = "Cubed Power" -> apply_cube_power(series)
      [] method = "Yeo-Johnson" -> apply_yeo_johnson(series)
      [] method = "Quantile Transformer" -> apply_quantile_transformer(series)

\* C5: for every float s, get_transformation_method names and
\* apply_transformation applies the one method the table gives for s; the
\* other columns and, for |s| <= 0.5, the column itself are left untouched.
C5_MethodTable ==
    op = "apply_transformation" =>
        LET expected == TableMethod(args.p, args.q)
            wanted == MethodResult(expected, input[args.col])
        IN  /\ pc # "get_transformation_method" => result.method = expected
            /\ pc = "done" =>
                /\ heap[args.df][args.col] = wanted.series
                /\ (outcome = "raised") = wanted.exc
                /\ heap[args.df]["B"] = input["B"]

\* Witness of C5: at s = 3.0 Yeo-Johnson was named and applied, and just
\* above 3 the quantile transform.
C5_Witness ==
    /\ op = "apply_transformation" /\ pc = "done" /\ outcome = "returned"
    /\ args.p = 300000
    /\ result.method = "Yeo-Johnson"
    /\ heap[args.df]["A"] = <<Sym("yeo_johnson(0)", 0), Sym("yeo_johnson(1)", 0),
                              Sym("yeo_johnson(4)", 0)>>

(***************************************************************************)
(* Claims about the Skew Correction Engine                                 *)
(***************************************************************************)
BatchProcessed == {args.columns[j] : j \in 1..(idx - 1)}
ListedOnce(c) == Cardinality({j \in DOMAIN args.columns : args.columns[j] = c}) = 1
IsErrorEntry(e) ==
    /\ "error" \in DOMAIN e
    /\ e.original_skewness = SkewNone
    /\ e.new_skewness = SkewNone
    /\ e.method = Null

\* The skewness of a column of the input table, when it has one.
InputSkewness(c) == {r.v : r \in {x \in compute_skewness(input[c]) : ~x.exc}} \ {SkewNone}

\* A bad column: absent, fewer than two usable numeric values, or text in
\* a column whose skewness asks for a transformation.
BadColumn(c) ==
    \/ c \notin DOMAIN input
    \/ Cardinality(Coercible(input[c])) < 2
    \/ /\ Dtype(input[c]) = "object"
       /\ \E v \in InputSkewness(c) : ~AbsLE(v, 1, 2)

\* C6: correct_multiple_columns does not raise because of a bad column: it
\* returns an entry for every requested column, a bad column gets an error
\* entry with original_skewness, new_skewness and method null, and the
\* columns listed after it are processed.
C6_BatchNeverRaises ==
    op = "correct_multiple_columns" =>
        /\ outcome # "raised"
        /\ (outcome = "running" /\ pc = "loop" /\ idx <= Len(args.columns)) =>
                correct_column(heap[df_corrected], args.columns[idx]) # {}
        /\ outcome = "running" => pc \in {"copy", "loop"}
        /\ outcome = "returned" =>
            /\ idx = Len(args.columns) + 1
            /\ DOMAIN result = Range(args.columns)
        /\ \A c \in BatchProcessed :
            /\ c \in DOMAIN result
            /\ BadColumn(c) => IsErrorEntry(result[c])
            /\ ~IsErrorEntry(result[c]) => DOMAIN result[c] =
                                               {"original_skewness", "new_skewness", "method"}

\* Witness of C6: the first column has one usable value, the second is
\* absent, and the third was still transformed.
C6_Witness ==
    /\ op = "correct_multiple_columns" /\ outcome = "returned"
    /\ args.columns = <<"A", "Z", "B">>
    /\ input["A"] = <<NaN, Num(4), Word("x")>>
    /\ IsErrorEntry(result["A"]) /\ result["A"].error = "ValueError"
    /\ IsErrorEntry(result["Z"]) /\ result["Z"].error = "Column not found"
    /\ result["B"].method = "Square Root"
    /\ heap[df_corrected]["B"] = <<Num(0), Num(0), Num(2)>>

\* C7: for every column B of the list with a reported skewness, the
\* reported original_skewness is the skewness of B on the untouched input
\* table and B holds the transform of its input values selected from that
\* value, whatever was listed before B.
C7_OriginalSkewnessFromInput ==
    op = "correct_multiple_columns" =>
        \A c \in BatchProcessed :
            ~IsErrorEntry(result[c]) =>
                /\ result[c].original_skewness \in InputSkewness(c)
                /\ heap[df_corrected][c] =
                       apply_transformation(input[c], result[c].original_skewness).series

\* C9: a column whose entry is an error entry holds its input values in
\* the returned table.  Stated for the columns listed once.
C9_ErrorEntryLeavesColumn ==
    op = "correct_multiple_columns" =>
        \A c \in BatchProcessed :
            (c \in DOMAIN input /\ ListedOnce(c) /\ IsErrorEntry(result[c])) =>
                heap[df_corrected][c] = input[c]

(***************************************************************************)
(* Claims about the frame of the correction operations                     *)
(***************************************************************************)
CorrectionOps == {"apply_correction", "correct_column", "correct_multiple_columns"}

\* C8 as stated: during and after apply_correction, correct_column and
\* correct_multiple_columns the table object passed in by the caller holds
\* the values it held before the call.
C8_NoOperationMutates ==
    op \in CorrectionOps => heap[CallerRef] = input

\* C8, amended: apply_correction (any method) and correct_multiple_columns
\* leave the table object passed in by the caller with the values it held
\* before the call, whether they return or fail; correct_column assigns
\* the transformed column to the table object it is given and leaves all
\* the other columns of that object as they were.
C8_CallerTableFrame ==
    /\ op \in {"apply_correction", "correct_multiple_columns"} =>
           /\ args.df = CallerRef
           /\ heap[CallerRef] = input
           /\ outcome = "returned" => df_corrected # CallerRef
    /\ op = "correct_column" =>
           /\ DOMAIN heap[CallerRef] = DOMAIN input
           /\ \A c \in DOMAIN input \ {args.column} : heap[CallerRef][c] = input[c]

\* Witness of C8: correct_multiple_columns returned a table in which a
\* column is transformed while the caller's table is as it was.
C8_Witness ==
    /\ op = "correct_multiple_columns" /\ outcome = "returned"
    /\ args.columns = <<"A", "B">>
    /\ result["B"].method = "Square Root"
    /\ heap[df_corrected]["B"] # input["B"]
    /\ heap[CallerRef] = input

(***************************************************************************)
(* Claims about the sampling-strategy derivation                           *)
(***************************************************************************)
\* The calls of C10: no threshold, a threshold that is no number, a step
\* of the derivation that raises (the target column is absent), or a
\* numeric threshold outside (0,1].
AutoCase ==
    \/ args.threshold.k \in {"none", "text", "nan"}
    \/ args.target_col \notin DOMAIN input
    \/ args.threshold.k = "num"
          /\ ~(0 < args.threshold.p /\ args.threshold.p <= args.threshold.q)

\* The tables a method returns for the strategy 'auto'.
AutoTables ==
    LET outcomes ==
            CASE args.method = "oversample" -> oversample(input, args.target_col, Auto)
              [] args.method = "undersample" -> undersample(input, args.target_col, Auto)
              [] args.method = "smote" ->
                     smote(input, args.target_col, Auto, args.categorical_columns)
              [] OTHER -> {[exc |-> FALSE, df |-> input]}
    IN  {o.df : o \in {x \in outcomes : ~x.exc}}

\* C10: in each of these calls the derivation does not raise to the
\* caller, the method runs with the strategy 'auto' and the metadata of a
\* returned call reports sampling_strategy 'auto'.
C10_AutoFallback ==
    (op = "apply_correction" /\ pc = "done" /\ AutoCase) =>
        /\ outcome = "raised" => result.raised_in # "sampling_strategy"
        /\ outcome = "returned" =>
            /\ result.metadata.sampling_strategy = Auto
            /\ heap[result.df] \in AutoTables

\* Witness of C10: a threshold that is no number on a two-class target;
\* oversample returned the table balanced to the majority count.
C10_Witness ==
    /\ op = "apply_correction" /\ outcome = "returned"
    /\ args.method = "oversample"
    /\ args.threshold = ThresholdText
    /\ input.T = <<Word("a"), Word("a"), Word("b")>>
    /\ result.metadata.sampling_strategy = Auto
    /\ heap[result.df].T = <<Word("a"), Word("a"), Word("b"), Word("b")>>

(***************************************************************************)
(* Claims about the threshold of the Imbalance Correction Engine           *)
(***************************************************************************)
\* The class of a row (the text of its target value, "nan" for a missing
\* one) and the rows of a class in a table with target column T.
ClassOf(cell) == cell.s
ClassesOf(table) == {ClassOf(table.T[i]) : i \in DOMAIN table.T}
CountOf(table, cls) == Cardinality({i \in DOMAIN table.T : ClassOf(table.T[i]) = cls})
CountsOf(table) == {CountOf(table, cls) : cls \in ClassesOf(table)}

\* A finished call on the target column T with a threshold p/q in (0,1].
ThresholdCall ==
    /\ op = "apply_correction" /\ pc = "done"
    /\ args.target_col = "T"
    /\ args.threshold.k = "num"
    /\ 0 < args.threshold.p /\ args.threshold.p <= args.threshold.q
Returns == outcome = "returned"
Output == heap[result.df]

\* floor(n * t) and floor(n / t) for the threshold t = p/q of the call.
TimesThreshold(n) == (n * args.threshold.p) \div args.threshold.q
OverThreshold(n) == (n * args.threshold.q) \div args.threshold.p

BinaryCall == ThresholdCall /\ Cardinality(ClassesOf(input)) = 2

MulticlassCall == ThresholdCall /\ Cardinality(ClassesOf(input)) > 2

\* count + (majority_count - count) * t, truncated.
OversampleTarget(count) ==
    (count * args.threshold.q + (SetMax(CountsOf(input)) - count) * args.threshold.p)
        \div args.threshold.q

\* C12: on a target with more than two classes, with a threshold t in
\* (0,1], oversample and smote return a table in which every class below
\* the majority count whose target_count = trunc(count + (majority_count -
\* count) * t) exceeds its count has target_count rows, and every other
\* class has its input row count.
C12_MulticlassOversample ==
    (MulticlassCall /\ args.method \in {"oversample", "smote"} /\ Returns) =>
        \A cls \in ClassesOf(input) :
            LET count == CountOf(input, cls)
            IN  CountOf(Output, cls) =
                    IF count < SetMax(CountsOf(input)) /\ OversampleTarget(count) > count
                    THEN OversampleTarget(count)
                    ELSE count

\* C13: on a target with more than two classes, with a threshold t in
\* (0,1], undersample returns a table in which every class whose count
\* exceeds target_count = floor(minority_count / t) has target_count rows
\* and every other class has all its rows.
C13_MulticlassUndersample ==
    (MulticlassCall /\ args.method = "undersample" /\ Returns) =>
        LET target_count == OverThreshold(SetMin(CountsOf(input)))
        IN  \A cls \in ClassesOf(input) :
                CountOf(Output, cls) =
                    IF CountOf(input, cls) > target_count THEN target_count
                    ELSE CountOf(input, cls)

(***************************************************************************)
(* Claims about the samplers                                               *)
(***************************************************************************)
SamplerReturned(name) == op = name /\ pc = "done" /\ outcome = "returned"
RowsOf(table) == DOMAIN table.T

\* Row k of one table equals row i of another in every column.
SameRow(table, k, other, i) ==
    /\ DOMAIN table = DOMAIN other
    /\ \A c \in DOMAIN other : table[c][k] = other[c][i]

\* C14: the table oversample returns consists of rows of the input (every
\* output row equals the input row at one position in all columns, the
\* target included), and no class has fewer rows than in the input.
C14_OversampleRowsOfInput ==
    SamplerReturned("oversample") =>
        /\ \A k \in RowsOf(Output) : \E i \in RowsOf(input) : SameRow(Output, k, input, i)
        /\ \A cls \in ClassesOf(input) : CountOf(Output, cls) >= CountOf(input, cls)
        /\ ClassesOf(Output) = ClassesOf(input)

\* Witness of C14: a dict strategy asked for three rows of b; the two
\* added rows repeat the one input row of b, missing feature included.
C14_Witness ==
    /\ SamplerReturned("oversample")
    /\ args.sampling_strategy = DictStrategy([cls \in {"b"} |-> 3])
    /\ input.T = <<Word("b"), NaN, Word("a"), Word("a")>>
    /\ Output.T = <<Word("b"), NaN, Word("a"), Word("a"), Word("b"), Word("b")>>
    /\ Output.F[5] = NaN /\ Output.G[6] = Word("x")

\* C15: the table undersample returns is made of rows of the input, each
\* input position used at most once (the input rows of the model are
\* pairwise different, so no output row occurs twice); a class the
\* strategy targets has its target count (the dict entry, the minority
\* count for 'auto', floor(minority count / t) for the majority class of a
\* float t) and every other class has all its rows.
C15_UndersampleSubset ==
    SamplerReturned("undersample") =>
        LET st == args.sampling_strategy
            minority == SetMin(CountsOf(input))
        IN  /\ \A k \in RowsOf(Output) :
                  \E i \in RowsOf(input) :
                      /\ SameRow(Output, k, input, i)
                      /\ \A j \in RowsOf(Output) \ {k} : ~SameRow(Output, j, input, i)
            /\ \A cls \in ClassesOf(input) :
                  CountOf(Output, cls) =
                      IF st.kind = "dict"
                      THEN IF cls \in DOMAIN st.d THEN st.d[cls] ELSE CountOf(input, cls)
                      ELSE IF st.kind = "auto" THEN minority
                      ELSE IF CountOf(input, cls) = minority THEN minority
                      ELSE (minority * st.q) \div st.p

\* Witness of C15: a float strategy 0.75 on three rows of a and one of b
\* left one row of a and the row of b.
C15_Witness ==
    /\ SamplerReturned("undersample")
    /\ args.sampling_strategy = FloatStrategy(3, 4)
    /\ input.T = <<Word("a"), Word("b"), Word("a"), Word("a")>>
    /\ Output.T = <<Word("a"), Word("b")>>
    /\ Output.F = <<Num(3), Num(2)>>

(***************************************************************************)
(* Claims about reweight                                                   *)
(***************************************************************************)
\* C16: a returned reweight call, whatever the threshold, returns a table
\* equal to the input row for row, and metadata class_weights holds one
\* weight per class with weight * K * N_c = N (weights are pairs
\* numerator, denominator).
C16_ReweightKeepsTable ==
    (op = "apply_correction" /\ pc = "done" /\ args.method = "reweight" /\ Returns) =>
        LET weights == result.metadata.class_weights
            N == Cardinality(RowsOf(input))
            K == Cardinality(ClassesOf(input))
        IN  /\ Output = input
            /\ DOMAIN weights = ClassesOf(input)
            /\ \A cls \in ClassesOf(input) :
                  /\ weights[cls][2] > 0
                  /\ weights[cls][1] * K * CountOf(input, cls) = N * weights[cls][2]

\* Witness of C16: classes {a:3, b:1} with a threshold of 0.5 got the
\* weights 4/6 and 4/2.
C16_Witness ==
    /\ op = "apply_correction" /\ pc = "done" /\ args.method = "reweight" /\ Returns
    /\ args.threshold = ThresholdNum(1, 2)
    /\ input.T = <<Word("a"), Word("a"), Word("b"), Word("a")>>
    /\ result.metadata.class_weights = [cls \in {"a", "b"} |-> IF cls = "a" THEN <<4, 6>> ELSE <<4, 2>>]
    /\ Output = input

(***************************************************************************)
(* Claims about smote                                                      *)
(***************************************************************************)
SmoteDone == op = "smote" /\ pc = "done"
FeaturesOf(table) == DOMAIN table \ {"T"}
TextFeatures(table) ==
    {c \in FeaturesOf(table) : \E i \in DOMAIN table[c] : table[c][i].kind = "str"}
NoTable == outcome = "raised" /\ df_corrected = 0 /\ "df" \notin DOMAIN result

ListedFeatures == Range(args.categorical_columns) \cap FeaturesOf(input)
Synthesized == {k \in RowsOf(Output) : k > Len(input.T)}

\* C18: the path of smote follows from categorical_columns alone.  An
\* empty list takes the numeric path (text features are refused, every
\* feature of a synthesized row is interpolated); a non-empty list without
\* a feature column of the table fails with the validation error before
\* any resampling; a non-empty list with a feature column takes the
\* mixed-type path with exactly the listed feature columns as categorical
\* (text features are not refused as such; in a synthesized row a listed
\* feature holds a value of that column and every other feature is
\* interpolated).
C18_SmotePath ==
    SmoteDone =>
        IF args.categorical_columns = <<>>
        THEN /\ TextFeatures(input) # {} =>
                    (NoTable /\ result.error.type = "non-numeric features")
             /\ Returns => \A k \in Synthesized : \A c \in FeaturesOf(input) :
                               Output[c][k] = Sym("smote", 0)
        ELSE IF ListedFeatures = {}
        THEN NoTable /\ result.error = Error("no categorical column", {})
        ELSE /\ ~Returns => (NoTable /\ result.error = Error("sampler", {}))
             /\ Returns =>
                   \A k \in Synthesized : \A c \in FeaturesOf(input) :
                       IF c \in ListedFeatures
                       THEN \E i \in RowsOf(input) : Output[c][k] = Output[c][i]
                       ELSE Output[c][k] = Sym("smote", 0)

\* Witness of C18: with the list [G, Q] the long table took the mixed-type
\* path: the synthesized row holds a value of G and an interpolated F.
C18_Witness ==
    /\ SmoteDone /\ Returns
    /\ args.categorical_columns = <<"G", "Q">>
    /\ Synthesized # {}
    /\ \A k \in Synthesized :
          /\ Output.F[k] = Sym("smote", 0)
          /\ Output.G[k] = Output.G[1]

\* C19: in the table smote returns when categorical columns were supplied,
\* every value of every supplied categorical feature column is a value
\* that occurred in that column of the input table, in original and in
\* synthesized rows alike.
C19_DecodedCategories ==
    (SmoteDone /\ Returns /\ args.categorical_columns # <<>>) =>
        \A c \in ListedFeatures : \A k \in RowsOf(Output) :
            \E i \in RowsOf(input) : Output[c][k] = input[c][i]

(***************************************************************************)
(* Claims about repeated calls                                             *)
(***************************************************************************)
Repeated == op = "repeat" /\ idx = RepeatCalls
Given(r) == IF "df" \in DOMAIN r THEN [r EXCEPT !.df = heap[r.df]] ELSE r

BiasDone == op = "apply_correction" /\ pc = "done"

\* C21: apply_correction called with a target column that is absent from
\* the table, or that validate_target_column does not call categorical,
\* fails and performs no resampling.
C21_TargetPreconditions ==
    (BiasDone /\ ~validate_target_column(input, args.target_col).is_valid) =>
        (outcome = "raised" /\ df_corrected = 0)

(***************************************************************************)
(* Claims about the column-type store                                      *)
(***************************************************************************)
Store == heap.COLUMN_TYPES_STORE
Names(list) == {list[k].s : k \in DOMAIN list}
DuplicateFree(seq) == \A i, j \in DOMAIN seq : i # j => seq[i] # seq[j]
Served == op = "set_column_types" /\ idx > 0
Readable == /\ args.file_path # ""
            /\ ~Paths[args.file_path].isabs
            /\ Paths[args.file_path].within
            /\ Paths[args.file_path].file # ""
Overlapping == Names(args.categorical) \cap Names(args.continuous) # {}
NamesMissing ==
    Readable /\ ~((Names(args.categorical) \cup Names(args.continuous))
                      \subseteq Uploads[Paths[args.file_path].file])

\* C22: after any sequence of set_column_types requests every entry of the
\* store has duplicate-free categorical and continuous lists that are
\* disjoint and name only columns of the dataset; a request whose lists
\* overlap or name a missing column is rejected and leaves the store as
\* it was; an accepted request replaces only the entry of its file path.
C22_StoreInvariant ==
    op = "set_column_types" =>
        /\ \A fp \in DOMAIN Store :
              /\ DuplicateFree(Store[fp].categorical)
              /\ DuplicateFree(Store[fp].continuous)
              /\ Range(Store[fp].categorical) \cap Range(Store[fp].continuous) = {}
              /\ (Range(Store[fp].categorical) \cup Range(Store[fp].continuous))
                     \subseteq Uploads[Paths[fp].file]
        /\ Served =>
              /\ (Overlapping \/ NamesMissing) => (result.status = 400 /\ Store = input)
              /\ result.status = 400 => Store = input
              /\ result.status = 200 =>
                    /\ DOMAIN Store = DOMAIN input \cup {args.file_path}
                    /\ \A fp \in DOMAIN input \ {args.file_path} : Store[fp] = input[fp]
                    /\ Range(Store[args.file_path].categorical) = Names(args.categorical)
                    /\ Range(Store[args.file_path].continuous) = Names(args.continuous)

\* Witness of C22: the store holds entries of two file paths, one of them
\* saved from a list with repeated names, and the last request, whose
\* lists overlap, was rejected and left both.
C22_Witness ==
    /\ Served
    /\ Readable
    /\ Overlapping
    /\ ~NamesMissing
    /\ result.status = 400
    /\ DOMAIN Store = {"uploads/a.csv", "uploads/b.csv"}
    /\ Store["uploads/a.csv"].categorical = <<"B", "A">>
    /\ Store["uploads/b.csv"].continuous = <<"1">>
    /\ Store = input

(***************************************************************************)
(* Claims about the classes of the target                                  *)
(***************************************************************************)
\* The classes of a table: the distinct target values that are not
\* missing, and the rows of each.
Classes(table) == {table.T[i].s : i \in dropna(table.T)}
ClassSize(table, cls) ==
    Cardinality({i \in dropna(table.T) : table.T[i].s = cls})
ClassSizes(table) == {ClassSize(table, cls) : cls \in Classes(table)}
RowBag(table) ==
    LET row(i) == [c \in DOMAIN table |-> table[c][i]]
    IN  [r \in {row(i) : i \in RowsOf(table)} |->
            Cardinality({i \in RowsOf(table) : row(i) = r})]
AutoCall ==
    /\ BiasDone
    /\ args.target_col = "T"
    /\ args.threshold = ThresholdNone
    /\ args.method \in {"oversample", "undersample"}

\* C23: with no threshold, oversample returns a table in which every class
\* has the majority count of the input, undersample one in which every
\* class has the minority count of the input; a table whose classes are
\* equal in count is returned with the same multiset of rows.
C23_AutoBalances ==
    (AutoCall /\ Classes(input) # {}) =>
        /\ Returns
        /\ \A cls \in Classes(input) :
              ClassSize(Output, cls) =
                  IF args.method = "oversample" THEN SetMax(ClassSizes(input))
                  ELSE SetMin(ClassSizes(input))
        /\ Cardinality(ClassSizes(input)) = 1 => RowBag(Output) = RowBag(input)

(***************************************************************************)
(* Claims about the legacy dispatcher                                      *)
(***************************************************************************)
\* C24: for every skew value handle_skew applies the transformation that
\* ContinuousTransformer.apply_transformation applies: it leaves the
\* column with the same values and ends the same way.
C24_HandleSkewAgrees ==
    (op = "handle_skew" /\ pc = "done") =>
        LET t == apply_transformation(input[args.col], args.skew_val)
        IN  /\ heap[args.df][args.col] = t.series
            /\ (outcome = "raised") = t.exc

(***************************************************************************)
(* Claims about the quantile transform and repeated columns                *)
(***************************************************************************)
ColumnDone == op = "correct_column" /\ pc = "done" /\ args.column \in DOMAIN input

\* C25: correct_column applies the quantile transform only to a column
\* whose skewness s satisfies s > 3 or s < -3: a column reported with
\* method 'Quantile Transformer', and a column whose values changed under
\* no other method, has such a skewness; a column of undefined skewness
\* stays as it is.
C25_QuantileOnlyWhenExtreme ==
    (ColumnDone /\ result.method # Null) =>
        LET s == result.original_skewness
            extreme == GT(s, 3, 1) \/ LT(s, -3, 1)
        IN  /\ result.method = "Quantile Transformer" => extreme
            /\ s = SkewNaN => heap[args.df] = input

\* C26: listing a column twice does not change the outcome of a batch:
\* correct_multiple_columns(table, [A, A]) returns a corrected table and an
\* entry for A that correct_multiple_columns(table, [A]) can return.
C26_RepeatedColumn ==
    (/\ op = "correct_multiple_columns" /\ pc = "done" /\ outcome = "returned"
     /\ args.columns = <<"A", "A">>) =>
        \E o \in correct_column(input, "A") :
            /\ heap[df_corrected] = o.df
            /\ result = DictSet(EmptyDict, "A", o.entry)

BatchDone == op = "correct_multiple_columns" /\ pc = "done" /\ outcome = "returned"

\* C27: the table correct_multiple_columns returns has the columns of the
\* input with as many rows; every column not listed is value for value
\* the column of the input; so is a listed column whose method is 'None
\* (already symmetric)', and its new_skewness is its original_skewness.
C27_BatchFrame ==
    BatchDone =>
        LET out == heap[df_corrected]
        IN  /\ DOMAIN out = DOMAIN input
            /\ \A c \in DOMAIN input : Len(out[c]) = Len(input[c])
            /\ \A c \in DOMAIN input \ Range(args.columns) : out[c] = input[c]
            /\ \A c \in DOMAIN result :
                  result[c].method = "None (already symmetric)" =>
                      /\ out[c] = input[c]
                      /\ result[c].new_skewness = result[c].original_skewness

(***************************************************************************)
(* Claims about the method names                                           *)
(***************************************************************************)
\* What the call gives with the method spelled in lower case, for either
\* answer of the installed library.
LowerCase ==
    {apply_correction(input, args.target_col, lower(args.method), args.threshold,
                      args.categorical_columns, array_required)
        : array_required \in BOOLEAN}

\* C28: a method validate_method accepts is executed by apply_correction
\* as its lower-case spelling is (it returns or fails as that one does and
\* reports the same strategy); a method validate_method refuses makes
\* apply_correction fail without a table.
C28_ValidationAgreesWithDispatch ==
    BiasDone =>
        IF validate_method(args.method)
        THEN IF Returns
             THEN \E r \in LowerCase :
                     /\ "df" \in DOMAIN r
                     /\ r.metadata.sampling_strategy = result.metadata.sampling_strategy
             ELSE \E r \in LowerCase : "raised_in" \in DOMAIN r
        ELSE outcome = "raised" /\ df_corrected = 0

(***************************************************************************)
(* Claims about missing target values and the keys of an entry             *)
(***************************************************************************)
\* C29: the class count by which apply_correction chooses between the
\* binary policy (the threshold itself as strategy) and the multi-class
\* policy is the number of distinct target values that are not missing: a
\* threshold t in (0,1] becomes the scalar strategy exactly when the
\* target has two such values, missing values or not.
C29_ClassCountIgnoresMissing ==
    ThresholdCall =>
        ((Cardinality(Classes(input)) = 2) <=> (BiasStrategy.kind = "float"))

\* C30: the entry detect_imbalance returns for a column with a value
\* that is not missing holds, for every distinct such value v, the key
\* str(v) with the proportion of v, and the key 'severity' with a label:
\* as many proportions as distinct values, none lost or overwritten.
C30_EveryValueHasItsProportion ==
    op = "detect_imbalance" =>
        \A c \in DetectProcessed :
            HasData(c) =>
                LET entry == result[c]
                    col == DetectDf[c]
                    vc == value_counts(col)
                IN  /\ entry["severity"].v \in {"Low", "Moderate", "Severe"}
                    /\ Cardinality(FloatKeys(entry)) = Cardinality(DOMAIN vc)
                    /\ \A v \in DOMAIN vc :
                          /\ Str(col, v) \in FloatKeys(entry)
                          /\ entry[Str(col, v)].v = Round6(vc[v], Cardinality(dropna(col)))

====
